---- MODULE Spec2Model ----
(***************************************************************************)
(* The Layer Composer of decommic/bbb (LayerComposerModal): the layer      *)
(* array, the undo/redo history with its begin/commit protocol, the        *)
(* selection, the multi-layer operations and the asynchronous operations   *)
(* (image load, merge, bake, export, AI generation) whose continuations    *)
(* run with the values of the render in which they were started.           *)
(*                                                                         *)
(* Numbers are exact rationals [n, d] (d > 0, lowest terms); the code      *)
(* computes in IEEE doubles, which agree on the dyadic values used here.   *)
(* history is 1-based here: the code's history[i] is history[i + 1].       *)
(***************************************************************************)
EXTENDS Integers, Sequences, FiniteSets, TLC

\* ------------------------------------------------------------------ bounds
\* Fresh layer ids the composer may hand out (Math.random ids never repeat).
MaxId == 2
\* Longest history the model lets a commit produce.
MaxHistory == 2
\* Asynchronous operations in flight at the same time.
MaxTasks == 1
\* The generations started in one run.
MaxGen == 2
\* The generations that are started one after the other in SpecRestart.
MaxRestarts == 3

\* ---------------------------------------------------------------- numbers
Abs(n) == IF n < 0 THEN 0 - n ELSE n

RECURSIVE GCD(_, _)
GCD(a, b) == IF b = 0 THEN a ELSE GCD(b, a % b)

Q(n, d) ==
    LET s == IF d < 0 THEN 0 - 1 ELSE 1
        g == GCD(Abs(n), Abs(d))
    IN  [n |-> (s * n) \div g, d |-> (s * d) \div g]

Num(n) == [n |-> n, d |-> 1]

\* The operands are bound to their values first, so that a nested expression is
\* worked out once.
QAdd(a, b) == CHOOSE r \in {Q(x.n * y.d + y.n * x.d, x.d * y.d) : x \in {a}, y \in {b}} : TRUE
QSub(a, b) == CHOOSE r \in {Q(x.n * y.d - y.n * x.d, x.d * y.d) : x \in {a}, y \in {b}} : TRUE
QMul(a, b) == CHOOSE r \in {Q(x.n * y.n, x.d * y.d) : x \in {a}, y \in {b}} : TRUE
QDiv(a, b) == CHOOSE r \in {Q(x.n * y.d, x.d * y.n) : x \in {a}, y \in {b}} : TRUE
QLt(a, b) == \E x \in {a}, y \in {b} : x.n * y.d < y.n * x.d
QLe(a, b) == \E x \in {a}, y \in {b} : x.n * y.d <= y.n * x.d
\* Math.min, Math.max
QMin(a, b) == CHOOSE m \in {a, b} : \A x \in {a, b} : QLe(m, x)
QMax(a, b) == CHOOSE m \in {a, b} : \A x \in {a, b} : QLe(x, m)

\* ----------------------------------------------------------------- layers
\* A layer is a record over (a subset of) these keys; a key a layer object
\* does not own is absent from the record's domain, and a key holding
\* `undefined` holds Undefined.
Undefined == "undefined"
OptionalKeys == {"url", "text"}

\* { ...l, ...props }
Spread(l, props) ==
    [k \in DOMAIN l \cup DOMAIN props |->
        IF k \in DOMAIN props THEN props[k] ELSE l[k]]

\* A serialization that leaves the image data out as well.
StringifyLayerWithoutUrl(l) ==
    LET kept == {k \in DOMAIN l : k # "url" /\ ~(k \in OptionalKeys /\ l[k] = Undefined)}
    IN  [k \in kept |-> l[k]]

\* JSON.stringify of one layer: keys holding undefined are left out.
StringifyLayer(l) ==
    LET kept == {k \in DOMAIN l : ~(k \in OptionalKeys /\ l[k] = Undefined)}
    IN  [k \in kept |-> l[k]]

\* JSON.stringify(layers), up to the order of the keys.
JSONstringify(ls) == [i \in 1..Len(ls) |-> StringifyLayer(ls[i])]

\* layers.findIndex(l => l.id === id), 1-based; 0 stands for -1.
RECURSIVE FindFrom(_, _, _)
FindFrom(ls, id, i) ==
    IF i > Len(ls) THEN 0
    ELSE IF ls[i].id = id THEN i
    ELSE FindFrom(ls, id, i + 1)

findIndex(ls, id) == FindFrom(ls, id, 1)

Includes(ids, id) == \E i \in 1..Len(ids) : ids[i] = id

\* selectedLayerIds.map(id => layers.find(...)).filter(l => !!l)
selectedLayersOf(ls, ids) ==
    LET present == SelectSeq(ids, LAMBDA id : findIndex(ls, id) # 0)
    IN  [i \in 1..Len(present) |-> ls[findIndex(ls, present[i])]]

\* array.splice(at, 0, item) with a 0-based `at`; -1 counts from the end.
SpliceIn(ls, at, item) ==
    LET n == Len(ls)
        p == IF at < 0 THEN (IF n + at < 0 THEN 0 ELSE n + at)
             ELSE IF at > n THEN n ELSE at
    IN  SubSeq(ls, 1, p) \o <<item>> \o SubSeq(ls, p + 1, n)

RemoveAt(ls, i) == SubSeq(ls, 1, i - 1) \o SubSeq(ls, i + 1, Len(ls))

\* ---------------------------------------------------------------- geometry
\* Math.cos / Math.sin of a rotation in degrees, for the right angles.
Cos(deg) == CASE deg % 360 = 0 -> Num(1) [] deg % 360 = 180 -> Num(0 - 1)
              [] OTHER -> Num(0)
Sin(deg) == CASE deg % 360 = 90 -> Num(1) [] deg % 360 = 270 -> Num(0 - 1)
              [] OTHER -> Num(0)

Half(a) == QDiv(a, Num(2))

\* One corner (px, py) turned about the centre (cx, cy).
RotatePoint(px, py, cx, cy, cos, sin) ==
    [x |-> QAdd(QSub(QMul(QSub(px, cx), cos), QMul(QSub(py, cy), sin)), cx),
     y |-> QAdd(QAdd(QMul(QSub(px, cx), sin), QMul(QSub(py, cy), cos)), cy)]

CornersAbout(l, cx, cy, right, bottom, cos, sin) ==
    << RotatePoint(l.x, l.y, cx, cy, cos, sin),
       RotatePoint(right, l.y, cx, cy, cos, sin),
       RotatePoint(l.x, bottom, cx, cy, cos, sin),
       RotatePoint(right, bottom, cx, cy, cos, sin) >>

\* The four rotated corners of one layer.
RotatedCorners(l) ==
    CornersAbout(l, QAdd(l.x, Half(l.width)), QAdd(l.y, Half(l.height)),
                 QAdd(l.x, l.width), QAdd(l.y, l.height),
                 Cos(l.rotation), Sin(l.rotation))

RECURSIVE AllCorners(_, _)
AllCorners(ls, i) ==
    IF i > Len(ls) THEN <<>> ELSE RotatedCorners(ls[i]) \o AllCorners(ls, i + 1)

\* The coordinate of the corner met first, whatever the others are.
FirstOf(pts, i, key) == pts[i][key]

RECURSIVE MinOf(_, _, _)
\* corners.forEach(corner => { minX = Math.min(minX, corner.x); ... }) from Infinity
MinOf(pts, i, key) ==
    IF i = Len(pts) THEN pts[i][key] ELSE QMin(pts[i][key], MinOf(pts, i + 1, key))

RECURSIVE MaxOf(_, _, _)
MaxOf(pts, i, key) ==
    IF i = Len(pts) THEN pts[i][key] ELSE QMax(pts[i][key], MaxOf(pts, i + 1, key))

BoxOf(pts) ==
    [minX |-> MinOf(pts, 1, "x"), minY |-> MinOf(pts, 1, "y"),
     maxX |-> MaxOf(pts, 1, "x"), maxY |-> MaxOf(pts, 1, "y")]

RectOf(b) ==
    [x |-> b.minX, y |-> b.minY,
     width |-> QSub(b.maxX, b.minX), height |-> QSub(b.maxY, b.minY)]

\* The result null is the empty sequence, a Rect is <<rect>>.
getBoundingBoxForLayers(layersToBound) ==
    IF Len(layersToBound) = 0 THEN <<>>
    ELSE CHOOSE r \in {<<RectOf(b)>> : b \in {BoxOf(pts) : pts \in {AllCorners(layersToBound, 1)}}} : TRUE

\* ------------------------------------------------------------------ state
VARIABLES
    layers,                         \* useState<Layer[]>
    history,                        \* useState<Layer[][]>
    historyIndex,                   \* useState(0)
    interactionStartHistoryState,   \* useRef<Layer[] | null>: <<>> is null, <<ls>> is ls
    selectedLayerIds,               \* useState<string[]>
    canvasSettings,
    isInfiniteCanvas,
    canvasInitialized,
    isLoading,
    error,                          \* "null" is null
    nextId,                         \* the next id Math.random hands out
    tasks,                          \* asynchronous operations awaiting a result
    generationController,           \* useRef<AbortController | null>: 0 is null
    aborted,                        \* the controllers whose signal is aborted
    nextGen,                        \* the next generation; it names its AbortController
    cancelRequested,                \* the generations handleCancelGeneration found in flight
    lastEvent                       \* the handler or continuation that last changed the state

sceneVars == <<layers, history, historyIndex, interactionStartHistoryState, selectedLayerIds>>
canvasVars == <<canvasSettings, isInfiniteCanvas, canvasInitialized>>
uiVars == <<isLoading, error>>
genVars == <<generationController, aborted, nextGen, cancelRequested>>
vars == <<layers, history, historyIndex, interactionStartHistoryState, selectedLayerIds,
          canvasSettings, isInfiniteCanvas, canvasInitialized, isLoading, error,
          nextId, tasks, generationController, aborted, nextGen, cancelRequested>>
\* cancelRequested and lastEvent record what happened; no handler reads them.
allVars == <<vars, lastEvent>>

NoError == "null"
NullRef == <<>>

defaultGridSettings == [visible |-> FALSE, snap |-> FALSE, size |-> 50, color |-> "#cccccc"]
defaultGuideSettings == [enabled |-> TRUE, color |-> "#ff4d4d"]
defaultCanvasSettings ==
    [width |-> 1024, height |-> 1024, background |-> "#ffffff",
     grid |-> defaultGridSettings, guides |-> defaultGuideSettings]

\* The values a handler created in the current render closes over.
Render ==
    [layers |-> layers, history |-> history, historyIndex |-> historyIndex,
     selectedLayerIds |-> selectedLayerIds, canvasSettings |-> canvasSettings,
     canvasInitialized |-> canvasInitialized]

selectedLayers == selectedLayersOf(layers, selectedLayerIds)

Init ==
    /\ layers = <<>>
    /\ history = << <<>> >>
    /\ historyIndex = 0
    /\ interactionStartHistoryState = NullRef
    /\ selectedLayerIds = <<>>
    /\ canvasSettings = defaultCanvasSettings
    /\ isInfiniteCanvas = TRUE
    /\ canvasInitialized = FALSE
    /\ isLoading = FALSE
    /\ error = NoError
    /\ nextId = 1
    /\ tasks = {}
    /\ generationController = 0
    /\ aborted = {}
    /\ nextGen = 1
    /\ cancelRequested = {}
    /\ lastEvent = [op |-> "init"]

\* --------------------------------------------------------------- inputs
\* The property bags the sidebar and the canvas pass to the update handlers.
PropsInputs == { [x |-> Num(10)] }

\* A persisted document as JSON.parse returns it.
DocLayer(id, x, w, h) ==
    [id |-> id, type |-> "image", url |-> "data:doc", x |-> Num(x), y |-> Num(0),
     width |-> Num(w), height |-> Num(h), rotation |-> 0, opacity |-> 100,
     blendMode |-> "source-over", isVisible |-> TRUE, isLocked |-> FALSE]

ValidDocument ==
    [text |-> "json", settings |-> "object", layersKind |-> "array",
     canvasSettings |-> [width |-> 512, height |-> 512, background |-> "#000000",
                         isInfinite |-> FALSE],
     layers |-> << DocLayer(101, 0, 100, 100), DocLayer(102, 10, 50, 50) >>]

\* text: "malformed" does not parse. settings: the type of jsonData.canvasSettings
\* ("object", "null", "string", "undefined"). layersKind: "array" or "other".
JsonInputs ==
    { ValidDocument,
      [ValidDocument EXCEPT !.text = "malformed"],
      [ValidDocument EXCEPT !.settings = "string"],
      [ValidDocument EXCEPT !.settings = "null"],
      [ValidDocument EXCEPT !.layersKind = "other"],
      [ValidDocument EXCEPT !.canvasSettings = [width |-> 512, height |-> 512,
                                                isInfinite |-> FALSE]] }

\* The checks that let a parsed document through to the setters: it parses,
\* typeof canvasSettings is 'object' (null throws at loadedSettings.grid) and
\* layers is an array.
reachesSetters(file) ==
    /\ file.text # "malformed"
    /\ file.settings = "object"
    /\ file.layersKind = "array"

\* ------------------------------------------------------------- history
\* A push that leaves the cursor one past the last entry.
pushHistoryPastEnd(c, newLayers) ==
    LET newHistory == Append(SubSeq(c.history, 1, c.historyIndex + 1), newLayers)
    IN  /\ history' = newHistory
        /\ historyIndex' = Len(newHistory)

\* A push that records the new array twice.
pushHistoryTwice(c, newLayers) ==
    LET newHistory == Append(Append(SubSeq(c.history, 1, c.historyIndex + 1), newLayers),
                             newLayers)
    IN  /\ history' = newHistory
        /\ historyIndex' = Len(newHistory) - 1

\* history.slice(0, historyIndex + 1) of the closure c, newLayers pushed,
\* setHistory(newHistory), setHistoryIndex(newHistory.length - 1).
pushHistory(c, newLayers) ==
    LET newHistory == Append(SubSeq(c.history, 1, c.historyIndex + 1), newLayers)
    IN  /\ history' = newHistory
        /\ historyIndex' = Len(newHistory) - 1

\* The model stops a commit that would make the history longer than MaxHistory.
CanPush(c) == c.historyIndex + 2 <= MaxHistory

beginInteraction ==
    /\ interactionStartHistoryState' = <<layers>>
    /\ UNCHANGED <<layers, history, historyIndex, selectedLayerIds>>
    /\ UNCHANGED <<canvasVars, uiVars, genVars, nextId, tasks>>

\* An update that records every frame of a gesture.
commitUpdateEveryFrame(newLayers, isFinalChange) ==
    /\ layers' = newLayers
    /\ IF /\ interactionStartHistoryState # NullRef
          /\ JSONstringify(interactionStartHistoryState[1]) # JSONstringify(newLayers)
       THEN CanPush(Render) /\ pushHistory(Render, newLayers)
       ELSE UNCHANGED <<history, historyIndex>>
    /\ interactionStartHistoryState' = IF isFinalChange THEN NullRef
                                       ELSE interactionStartHistoryState

\* A final update that records the array without comparing it.
commitUpdateUncompared(newLayers, isFinalChange) ==
    /\ layers' = newLayers
    /\ IF isFinalChange
       THEN /\ IF interactionStartHistoryState # NullRef
               THEN CanPush(Render) /\ pushHistory(Render, newLayers)
               ELSE UNCHANGED <<history, historyIndex>>
            /\ interactionStartHistoryState' = NullRef
       ELSE UNCHANGED <<history, historyIndex, interactionStartHistoryState>>

\* The body the two update handlers share once newLayers is computed.
commitUpdate(newLayers, isFinalChange) ==
    /\ layers' = newLayers
    /\ IF isFinalChange
       THEN /\ IF /\ interactionStartHistoryState # NullRef
                  /\ JSONstringify(interactionStartHistoryState[1]) # JSONstringify(newLayers)
               THEN CanPush(Render) /\ pushHistory(Render, newLayers)
               ELSE UNCHANGED <<history, historyIndex>>
            /\ interactionStartHistoryState' = NullRef
       ELSE UNCHANGED <<history, historyIndex, interactionStartHistoryState>>

updateLayerProperties(id, newProps, isFinalChange) ==
    LET newLayers == [i \in 1..Len(layers) |->
                        IF layers[i].id = id THEN Spread(layers[i], newProps)
                        ELSE layers[i]]
    IN  /\ commitUpdate(newLayers, isFinalChange)
        /\ UNCHANGED <<selectedLayerIds, canvasVars, uiVars, genVars, nextId, tasks>>

\* The props the updates give layer l: the last update of its id wins per key,
\* each applied on top of the one before.
RECURSIVE ApplyUpdates(_, _, _)
ApplyUpdates(l, updates, i) ==
    IF i > Len(updates) THEN l
    ELSE ApplyUpdates(IF updates[i].id = l.id THEN Spread(l, updates[i].props) ELSE l,
                      updates, i + 1)

\* Every layer takes the properties of the first update, whatever its id.
updatedEveryLayer(prevLayers, updates) ==
    [i \in 1..Len(prevLayers) |-> Spread(prevLayers[i], updates[1].props)]

updatedLayers(prevLayers, updates) ==
    [i \in 1..Len(prevLayers) |-> ApplyUpdates(prevLayers[i], updates, 1)]

updateMultipleLayers(updates, isFinalChange) ==
    /\ commitUpdate(updatedLayers(layers, updates), isFinalChange)
    /\ UNCHANGED <<selectedLayerIds, canvasVars, uiVars, genVars, nextId, tasks>>

handleUndo ==
    IF historyIndex > 0
    THEN /\ historyIndex' = historyIndex - 1
         /\ layers' = history[historyIndex - 1 + 1]
         /\ UNCHANGED <<history, interactionStartHistoryState, selectedLayerIds>>
         /\ UNCHANGED <<canvasVars, uiVars, genVars, nextId, tasks>>
    ELSE UNCHANGED vars

handleRedo ==
    IF historyIndex < Len(history) - 1
    THEN /\ historyIndex' = historyIndex + 1
         /\ layers' = history[historyIndex + 1 + 1]
         /\ UNCHANGED <<history, interactionStartHistoryState, selectedLayerIds>>
         /\ UNCHANGED <<canvasVars, uiVars, genVars, nextId, tasks>>
    ELSE UNCHANGED vars

handleCloseAndReset ==
    /\ layers' = <<>>
    /\ selectedLayerIds' = <<>>
    /\ canvasSettings' = defaultCanvasSettings
    /\ error' = NoError
    /\ canvasInitialized' = FALSE
    /\ history' = << <<>> >>
    /\ historyIndex' = 0
    /\ isInfiniteCanvas' = TRUE
    /\ UNCHANGED <<interactionStartHistoryState, isLoading, genVars, nextId, tasks>>

\* ---------------------------------------------------------- document load
InvalidJsonError == "layerComposer_invalidJsonError"

\* A load that adds the document to the history instead of replacing it.
loadCanvasStateOntoHistory(jsonData) ==
    /\ layers' = jsonData.layers
    /\ history' = Append(history, jsonData.layers)
    /\ historyIndex' = Len(history)
    /\ UNCHANGED <<interactionStartHistoryState, selectedLayerIds, canvasVars, uiVars,
                   genVars, nextId, tasks>>

loadCanvasStateFromJson(jsonData) ==
    IF jsonData.settings \notin {"object", "null"} \/ jsonData.layersKind # "array"
    THEN /\ error' = InvalidJsonError
         /\ UNCHANGED <<sceneVars, canvasVars, isLoading, genVars, nextId, tasks>>
    ELSE IF jsonData.settings = "null"
    THEN \* loadedSettings.grid of null throws before any setter ran; the caller's
         \* catch reports the error.
         /\ error' = InvalidJsonError
         /\ UNCHANGED <<sceneVars, canvasVars, isLoading, genVars, nextId, tasks>>
    ELSE LET loadedSettings == jsonData.canvasSettings
             loadedLayers == jsonData.layers
             grid == IF "grid" \in DOMAIN loadedSettings
                     THEN Spread(defaultGridSettings, loadedSettings.grid)
                     ELSE defaultGridSettings
             guides == IF "guides" \in DOMAIN loadedSettings
                       THEN Spread(defaultGuideSettings, loadedSettings.guides)
                       ELSE defaultGuideSettings
         IN  /\ canvasSettings' = Spread(loadedSettings, [grid |-> grid, guides |-> guides])
             /\ layers' = loadedLayers
             /\ history' = <<loadedLayers>>
             /\ historyIndex' = 0
             /\ canvasInitialized' = TRUE
             /\ isInfiniteCanvas' = (IF "isInfinite" \in DOMAIN loadedSettings
                                     THEN loadedSettings.isInfinite ELSE FALSE)
             /\ UNCHANGED <<interactionStartHistoryState, selectedLayerIds, uiVars,
                            genVars, nextId, tasks>>

\* reader.onload of handleJsonFile: JSON.parse, then the load, in one try block.
handleJsonFile(file) ==
    IF file.text = "malformed"
    THEN /\ error' = InvalidJsonError
         /\ UNCHANGED <<sceneVars, canvasVars, isLoading, genVars, nextId, tasks>>
    ELSE loadCanvasStateFromJson(file)

\* ------------------------------------------------------------ new layers
\* The canvas view (canvasViewRef.current) exists once the canvas is shown; the
\* pan is 0 and the scale 1 throughout (the view transform is not modelled).
View == [clientWidth |-> 800, clientHeight |-> 600]

\* An HTMLImageElement that finished loading.
LoadedImage == [naturalWidth |-> 200, naturalHeight |-> 100, src |-> "data:image"]

RECURSIVE AddImagesLoop(_, _, _, _, _, _)
\* The forEach over [...loadedImages].reverse(): rev is the reversed list, acc
\* the record [layers, ids] built so far, id the id the next layer gets.
AddImagesLoop(rev, i, acc, id, position, settings) ==
    IF i > Len(rev) THEN acc
    ELSE LET img == rev[i]
             initialWidth == Num(img.naturalWidth)
             initialHeight == Num(img.naturalHeight)
             newX == IF position # <<>>
                     THEN QAdd(position[1].x, Num(20 * (i - 1)))
                     ELSE IF canvasInitialized
                     THEN QSub(Half(Num(View.clientWidth)), Half(initialWidth))
                     ELSE Half(QSub(Num(settings.width), initialWidth))
             newY == IF position # <<>>
                     THEN QAdd(position[1].y, Num(20 * (i - 1)))
                     ELSE IF canvasInitialized
                     THEN QSub(Half(Num(View.clientHeight)), Half(initialHeight))
                     ELSE Half(QSub(Num(settings.height), initialHeight))
             newLayer == [id |-> id, type |-> "image", url |-> img.src,
                          x |-> newX, y |-> newY,
                          width |-> initialWidth, height |-> initialHeight,
                          rotation |-> 0, opacity |-> 100, blendMode |-> "source-over",
                          isVisible |-> TRUE, isLocked |-> FALSE]
         IN  AddImagesLoop(rev, i + 1,
                           [layers |-> <<newLayer>> \o acc.layers,
                            ids |-> Append(acc.ids, id)],
                           id + 1, position, settings)

Reverse(s) == [i \in 1..Len(s) |-> s[Len(s) + 1 - i]]

\* addImagesAsLayers as created in the render c: position is <<>> for undefined
\* or null, <<p>> for a point.
addImagesAsLayers(c, loadedImages, position) ==
    IF Len(loadedImages) = 0
    THEN UNCHANGED <<sceneVars, canvasVars, nextId>>
    ELSE LET canvasNeedsInit == Len(c.layers) = 0 /\ ~c.canvasInitialized
             canvasSettingsToUpdate ==
                 IF canvasNeedsInit
                 THEN [c.canvasSettings EXCEPT
                          !.width = loadedImages[1].naturalWidth,
                          !.height = loadedImages[1].naturalHeight]
                 ELSE c.canvasSettings
             built == AddImagesLoop(Reverse(loadedImages), 1,
                                    [layers |-> c.layers, ids |-> <<>>],
                                    nextId, position, canvasSettingsToUpdate)
         IN  /\ nextId + Len(loadedImages) - 1 <= MaxId
             /\ CanPush(c)
             /\ IF canvasNeedsInit
                THEN /\ canvasSettings' = canvasSettingsToUpdate
                     /\ canvasInitialized' = TRUE
                     /\ isInfiniteCanvas' = FALSE
                ELSE UNCHANGED canvasVars
             /\ layers' = built.layers
             /\ selectedLayerIds' = built.ids
             /\ pushHistory(c, built.layers)
             /\ interactionStartHistoryState' = NullRef
             /\ nextId' = nextId + Len(loadedImages)

handleAddTextLayer ==
    LET newLayer == [id |-> nextId, type |-> "text", text |-> "Hello World",
                     x |-> Half(Num(canvasSettings.width - 300)),
                     y |-> Half(Num(canvasSettings.height - 60)),
                     width |-> Num(300), height |-> Num(60),
                     rotation |-> 0, opacity |-> 100, blendMode |-> "source-over",
                     isVisible |-> TRUE, isLocked |-> FALSE]
        newLayers == <<newLayer>> \o layers
    IN  /\ nextId <= MaxId
        /\ CanPush(Render)
        /\ canvasInitialized' = TRUE
        /\ layers' = newLayers
        /\ selectedLayerIds' = <<newLayer.id>>
        /\ pushHistory(Render, newLayers)
        /\ interactionStartHistoryState' = NullRef
        /\ nextId' = nextId + 1
        /\ UNCHANGED <<canvasSettings, isInfiniteCanvas, uiVars, genVars, tasks>>

\* -------------------------------------------------- selection commands
handleSelectLayer(id) ==
    /\ selectedLayerIds' = <<id>>
    /\ UNCHANGED <<layers, history, historyIndex, interactionStartHistoryState>>
    /\ UNCHANGED <<canvasVars, uiVars, genVars, nextId, tasks>>

\* The setter the canvas gets as a prop (click, shift-click, marquee).
setSelectedLayerIds(ids) ==
    /\ selectedLayerIds' = ids
    /\ UNCHANGED <<layers, history, historyIndex, interactionStartHistoryState>>
    /\ UNCHANGED <<canvasVars, uiVars, genVars, nextId, tasks>>

deleteSelectedLayers ==
    IF Len(selectedLayerIds) = 0
    THEN UNCHANGED vars
    ELSE LET newLayers == SelectSeq(layers, LAMBDA l : ~Includes(selectedLayerIds, l.id))
         IN  /\ CanPush(Render)
             /\ layers' = newLayers
             /\ pushHistory(Render, newLayers)
             /\ interactionStartHistoryState' = NullRef
             /\ selectedLayerIds' = <<>>
             /\ UNCHANGED <<canvasVars, uiVars, genVars, nextId, tasks>>

RECURSIVE DuplicateLoop(_, _, _, _, _, _)
\* The loop over [...selectedLayers].reverse(): every clone is spliced in at the
\* same index; offset is added to x and y.
DuplicateLoop(toDup, i, acc, id, at, offset) ==
    IF i > Len(toDup) THEN acc
    ELSE LET newLayer == Spread(toDup[i],
                                [id |-> id,
                                 x |-> QAdd(toDup[i].x, Num(offset)),
                                 y |-> QAdd(toDup[i].y, Num(offset))])
         IN  DuplicateLoop(toDup, i + 1,
                           [layers |-> SpliceIn(acc.layers, at, newLayer),
                            ids |-> Append(acc.ids, id)],
                           id + 1, at, offset)

duplicateSelectedLayers ==
    IF Len(selectedLayers) = 0
    THEN UNCHANGED vars
    ELSE LET topMostSelectedIndex == findIndex(layers, selectedLayers[1].id) - 1
             built == DuplicateLoop(Reverse(selectedLayers), 1,
                                    [layers |-> layers, ids |-> <<>>],
                                    nextId, topMostSelectedIndex, 20)
         IN  /\ nextId + Len(selectedLayers) - 1 <= MaxId
             /\ CanPush(Render)
             /\ layers' = built.layers
             /\ pushHistory(Render, built.layers)
             /\ interactionStartHistoryState' = NullRef
             /\ selectedLayerIds' = built.ids
             /\ nextId' = nextId + Len(selectedLayers)
             /\ UNCHANGED <<canvasVars, uiVars, genVars, tasks>>

\* The clones of a duplicate-drag: the live layers change, the history does not,
\* and the scratch snapshot stays set for the gesture's final update.
handleDuplicateForDrag ==
    IF Len(selectedLayers) = 0
    THEN UNCHANGED vars
    ELSE LET topMostSelectedIndex == findIndex(layers, selectedLayers[1].id) - 1
             built == DuplicateLoop(Reverse(selectedLayers), 1,
                                    [layers |-> layers, ids |-> <<>>],
                                    nextId, topMostSelectedIndex, 0)
         IN  /\ nextId + Len(selectedLayers) - 1 <= MaxId
             /\ interactionStartHistoryState' = <<layers>>
             /\ layers' = built.layers
             /\ selectedLayerIds' = built.ids
             /\ nextId' = nextId + Len(selectedLayers)
             /\ UNCHANGED <<history, historyIndex, canvasVars, uiVars, genVars, tasks>>

\* ------------------------------------------------------------- stack order
reorderLayers(reorderedLayers) ==
    /\ CanPush(Render)
    /\ layers' = reorderedLayers
    /\ pushHistory(Render, reorderedLayers)
    /\ interactionStartHistoryState' = NullRef
    /\ UNCHANGED <<selectedLayerIds, canvasVars, uiVars, genVars, nextId, tasks>>

\* Ascending sort of a sequence of integers (insertion sort).
RECURSIVE InsertSorted(_, _)
InsertSorted(s, v) ==
    IF Len(s) = 0 THEN <<v>>
    ELSE IF v < s[1] THEN <<v>> \o s
    ELSE <<s[1]>> \o InsertSorted(Tail(s), v)

RECURSIVE SortInts(_)
SortInts(s) == IF Len(s) = 0 THEN <<>> ELSE InsertSorted(SortInts(Tail(s)), s[1])

\* Moves the item at 0-based index `from` to 0-based index `to`.
MoveItem(ls, from, to) == SpliceIn(RemoveAt(ls, from + 1), to, ls[from + 1])

RECURSIVE MoveUpLoop(_, _, _)
\* for (i = 0; i < selectedIndices.length; i++): i is 1-based here, the indices
\* held in sel are the code's 0-based ones.
MoveUpLoop(ls, sel, i) ==
    IF i > Len(sel) THEN ls
    ELSE LET currentIndex == sel[i]
         IN  IF currentIndex > 0 /\ ~Includes(sel, currentIndex - 1)
             THEN MoveUpLoop(MoveItem(ls, currentIndex, currentIndex - 1),
                             [j \in 1..Len(sel) |-> IF j > i THEN sel[j] - 1 ELSE sel[j]],
                             i + 1)
             ELSE MoveUpLoop(ls, sel, i + 1)

RECURSIVE MoveDownLoop(_, _, _)
\* for (i = selectedIndices.length - 1; i >= 0; i--)
MoveDownLoop(ls, sel, i) ==
    IF i < 1 THEN ls
    ELSE LET currentIndex == sel[i]
         IN  IF currentIndex < Len(ls) - 1 /\ ~Includes(sel, currentIndex + 1)
             THEN MoveDownLoop(MoveItem(ls, currentIndex, currentIndex + 1),
                               [j \in 1..Len(sel) |-> IF j < i THEN sel[j] + 1 ELSE sel[j]],
                               i - 1)
             ELSE MoveDownLoop(ls, sel, i - 1)

movedLayers(direction) ==
    LET found == SelectSeq([i \in 1..Len(selectedLayerIds) |->
                               findIndex(layers, selectedLayerIds[i]) - 1],
                           LAMBDA index : index # 0 - 1)
        selectedIndices == SortInts(found)
    IN  IF direction = "up"
        THEN MoveUpLoop(layers, selectedIndices, 1)
        ELSE MoveDownLoop(layers, selectedIndices, Len(selectedIndices))

handleMoveLayers(direction) ==
    IF Len(selectedLayerIds) = 0
    THEN UNCHANGED vars
    ELSE reorderLayers(movedLayers(direction))

\* ------------------------------------------- asynchronous operations
\* A task is an async handler suspended at an await: kind names the handler and
\* c holds the render values its continuation closes over.
\* captureCanvas awaits the decode of every image layer that has a url; with
\* none it resumes in a microtask, before any other event is handled.
Suspends(ls) == \E i \in 1..Len(ls) : ls[i].type = "image" /\ "url" \in DOMAIN ls[i]

CanStartTask == Cardinality(tasks) < MaxTasks

\* handleAddImage: the image element is created and img.onload is awaited.
handleAddImage ==
    /\ CanStartTask
    /\ tasks' = tasks \cup {[kind |-> "addImage", c |-> Render]}
    /\ UNCHANGED <<sceneVars, canvasVars, uiVars, genVars, nextId>>

\* img.onload of handleAddImage: addImagesAsLayers([img], undefined).
addImageLoaded(task) ==
    /\ task \in tasks /\ task.kind = "addImage"
    /\ addImagesAsLayers(task.c, <<LoadedImage>>, <<>>)
    /\ tasks' = tasks \ {task}
    /\ UNCHANGED <<uiVars, genVars>>

\* The image fails to load: img.onerror is not set, nothing happens.
addImageFailed(task) ==
    /\ task \in tasks /\ task.kind = "addImage"
    /\ tasks' = tasks \ {task}
    /\ UNCHANGED <<sceneVars, canvasVars, uiVars, genVars, nextId>>

ComposerError == "layerComposer_error"

\* The layer that stands for a rasterization of the area bbox.
rasterLayer(id, url, bbox) ==
    [id |-> id, type |-> "image", url |-> url,
     x |-> bbox.x, y |-> bbox.y, width |-> bbox.width, height |-> bbox.height,
     rotation |-> 0, opacity |-> 100, blendMode |-> "source-over",
     isVisible |-> TRUE, isLocked |-> FALSE]

\* The commit both rasterizing handlers end their try block with.
commitRaster(c, newLayers, id) ==
    /\ layers' = newLayers
    /\ selectedLayerIds' = <<id>>
    /\ pushHistory(c, newLayers)
    /\ interactionStartHistoryState' = NullRef
    /\ isLoading' = FALSE
    /\ nextId' = id + 1
    /\ UNCHANGED <<canvasVars, genVars>>

\* A merge that takes only the first selected layer off the stack.
mergedLayersOverFirst(c, id) ==
    SpliceIn(SelectSeq(c.layers, LAMBDA l : l.id # c.selectedLayerIds[1]),
             findIndex(c.layers, c.selectedLayerIds[1]) - 1,
             rasterLayer(id, "data:merged",
                 getBoundingBoxForLayers(
                     selectedLayersOf(c.layers, c.selectedLayerIds))[1]))

\* layers.filter(l => !selectedLayerIds.includes(l.id)) with the merged layer
\* spliced in at the place of the first selected layer.
mergedLayers(c, id) ==
    SpliceIn(SelectSeq(c.layers, LAMBDA l : ~Includes(c.selectedLayerIds, l.id)),
             findIndex(c.layers, c.selectedLayerIds[1]) - 1,
             rasterLayer(id, "data:merged",
                 getBoundingBoxForLayers(
                     selectedLayersOf(c.layers, c.selectedLayerIds))[1]))

\* The continuation of handleMergeLayers after `await captureCanvas(...)`.
mergeResolved(c) ==
    /\ nextId <= MaxId
    /\ commitRaster(c, mergedLayers(c, nextId), nextId)

\* The catch and finally blocks of handleMergeLayers.
mergeRejected ==
    /\ error' = ComposerError
    /\ interactionStartHistoryState' = NullRef
    /\ isLoading' = FALSE
    /\ UNCHANGED <<layers, history, historyIndex, selectedLayerIds, canvasVars,
                   genVars, nextId>>

\* handleMergeLayers up to its await; with nothing to decode the continuation
\* follows at once.
handleMergeLayers ==
    IF Len(selectedLayers) < 2
    THEN UNCHANGED vars
    ELSE /\ CanPush(Render)
         /\ IF Suspends(selectedLayers)
            THEN /\ CanStartTask
                 /\ tasks' = tasks \cup {[kind |-> "merge", c |-> Render]}
                 /\ interactionStartHistoryState' = <<layers>>
                 /\ isLoading' = TRUE
                 /\ error' = NoError
                 /\ UNCHANGED <<layers, history, historyIndex, selectedLayerIds,
                                canvasVars, genVars, nextId>>
            ELSE /\ mergeResolved(Render)
                 /\ error' = NoError
                 /\ UNCHANGED tasks

mergeCaptured(task) ==
    /\ task \in tasks /\ task.kind = "merge"
    /\ mergeResolved(task.c)
    /\ tasks' = tasks \ {task}
    /\ UNCHANGED error

mergeCaptureFailed(task) ==
    /\ task \in tasks /\ task.kind = "merge"
    /\ mergeRejected
    /\ tasks' = tasks \ {task}

\* The baked layer: a new object, with the text properties set to undefined.
bakedLayer(layerToBake, id, bbox) ==
    [id |-> id, type |-> "image", url |-> "data:baked",
     x |-> bbox.x, y |-> bbox.y, width |-> bbox.width, height |-> bbox.height,
     rotation |-> 0, opacity |-> 100, blendMode |-> "source-over",
     isVisible |-> layerToBake.isVisible, isLocked |-> FALSE, text |-> Undefined]

\* layers.map(l => l.id === layerToBake.id ? newLayer : l)
bakedLayers(c, layerToBake, id) ==
    [i \in 1..Len(c.layers) |->
        IF c.layers[i].id = layerToBake.id
        THEN bakedLayer(layerToBake, id, getBoundingBoxForLayers(<<layerToBake>>)[1])
        ELSE c.layers[i]]

\* The continuation of handleBakeSelectedLayer after `await captureCanvas(...)`.
bakeResolved(c) ==
    /\ nextId <= MaxId
    /\ commitRaster(c,
          bakedLayers(c, selectedLayersOf(c.layers, c.selectedLayerIds)[1], nextId),
          nextId)

\* The catch and finally blocks of handleBakeSelectedLayer.
bakeRejected ==
    /\ error' = ComposerError
    /\ isLoading' = FALSE
    /\ UNCHANGED <<sceneVars, canvasVars, genVars, nextId>>

\* A selection of any size is baked.
bakesAnySelection(sel) == Len(sel) >= 1

\* `if (selectedLayers.length !== 1) return` lets exactly one layer through.
bakesSelection(sel) == Len(sel) = 1

handleBakeSelectedLayer ==
    IF ~bakesSelection(selectedLayers)
    THEN UNCHANGED vars
    ELSE /\ CanPush(Render)
         /\ IF Suspends(selectedLayers)
            THEN /\ CanStartTask
                 /\ tasks' = tasks \cup {[kind |-> "bake", c |-> Render]}
                 /\ interactionStartHistoryState' = <<layers>>
                 /\ isLoading' = TRUE
                 /\ error' = NoError
                 /\ UNCHANGED <<layers, history, historyIndex, selectedLayerIds,
                                canvasVars, genVars, nextId>>
            ELSE /\ bakeResolved(Render)
                 /\ error' = NoError
                 /\ UNCHANGED tasks

bakeCaptured(task) ==
    /\ task \in tasks /\ task.kind = "bake"
    /\ bakeResolved(task.c)
    /\ tasks' = tasks \ {task}
    /\ UNCHANGED error

bakeCaptureFailed(task) ==
    /\ task \in tasks /\ task.kind = "bake"
    /\ bakeRejected
    /\ tasks' = tasks \ {task}

\* handleExportSelectedLayers up to its first await: the scene is only read.
handleExportSelectedLayers ==
    IF Len(selectedLayers) < 1
    THEN UNCHANGED vars
    ELSE /\ CanStartTask
         /\ tasks' = tasks \cup {[kind |-> "export", n |-> Len(selectedLayers)]}
         /\ isLoading' = TRUE
         /\ error' = NoError
         /\ UNCHANGED <<sceneVars, canvasVars, genVars, nextId>>

\* Every layer was captured and downloaded: the finally block.
exportDone(task) ==
    /\ task \in tasks /\ task.kind = "export"
    /\ isLoading' = FALSE
    /\ tasks' = tasks \ {task}
    /\ UNCHANGED <<sceneVars, canvasVars, error, genVars, nextId>>

\* captureLayer threw: the catch and finally blocks.
exportFailed(task) ==
    /\ task \in tasks /\ task.kind = "export"
    /\ error' = ComposerError
    /\ isLoading' = FALSE
    /\ tasks' = tasks \ {task}
    /\ UNCHANGED <<sceneVars, canvasVars, genVars, nextId>>

\* ------------------------------------------------ multi-layer operations
GAP == 10

\* [...ls].sort((a, b) => a[key] - b[key]): stable, ascending.
RECURSIVE InsertByKey(_, _, _)
InsertByKey(s, l, key) ==
    IF Len(s) = 0 THEN <<l>>
    ELSE IF QLt(l[key], s[1][key]) THEN <<l>> \o s
    ELSE <<s[1]>> \o InsertByKey(Tail(s), l, key)

RECURSIVE SortByKey(_, _, _)
\* Inserts ls[i], ls[i-1], ..., ls[1] in turn, so that equal keys keep their order.
SortByKey(ls, i, key) ==
    IF i < 1 THEN <<>> ELSE InsertByKey(SortByKey(ls, i - 1, key), ls[i], key)

\* The layers in the order they were selected in.
unsorted(ls, key) == ls

sortedBy(ls, key) == SortByKey(ls, Len(ls), key)

RECURSIVE SumOf(_, _, _)
SumOf(ls, i, key) == IF i > Len(ls) THEN Num(0) ELSE QAdd(ls[i][key], SumOf(ls, i + 1, key))

RECURSIVE DistributeLoop(_, _, _, _, _, _)
\* sorted.forEach(l => { updates.push({id, props: {[pos]: current}}); current += l[size] + gap })
DistributeLoop(sorted, i, current, gap, pos, size) ==
    IF i > Len(sorted) THEN <<>>
    ELSE << [id |-> sorted[i].id,
             props |-> IF pos = "x" THEN [x |-> current] ELSE [y |-> current]] >>
         \o DistributeLoop(sorted, i + 1, QAdd(current, QAdd(sorted[i][size], gap)),
                           gap, pos, size)

RECURSIVE ScaleHorizontalLoop(_, _, _, _, _)
ScaleHorizontalLoop(sorted, i, currentX, avgHeight, bbox) ==
    IF i > Len(sorted) THEN <<>>
    ELSE LET layer == sorted[i]
             aspectRatio == IF QLt(Num(0), layer.height)
                            THEN QDiv(layer.width, layer.height) ELSE Num(1)
             newWidth == QMul(avgHeight, aspectRatio)
         IN  << [id |-> layer.id,
                 props |-> [width |-> newWidth, height |-> avgHeight,
                            x |-> currentX, y |-> bbox.y]] >>
             \o ScaleHorizontalLoop(sorted, i + 1, QAdd(currentX, QAdd(newWidth, Num(GAP))),
                                    avgHeight, bbox)

RECURSIVE ScaleVerticalLoop(_, _, _, _, _)
ScaleVerticalLoop(sorted, i, currentY, avgWidth, bbox) ==
    IF i > Len(sorted) THEN <<>>
    ELSE LET layer == sorted[i]
             aspectRatio == IF QLt(Num(0), layer.width)
                            THEN QDiv(layer.height, layer.width) ELSE Num(1)
             newHeight == QMul(avgWidth, aspectRatio)
         IN  << [id |-> layer.id,
                 props |-> [width |-> avgWidth, height |-> newHeight,
                            x |-> bbox.x, y |-> currentY]] >>
             \o ScaleVerticalLoop(sorted, i + 1, QAdd(currentY, QAdd(newHeight, Num(GAP))),
                                  avgWidth, bbox)

AlignActions == {"align-left", "align-center", "align-right",
                 "align-top", "align-middle", "align-bottom"}
DistributeActions == {"distribute-horizontal", "distribute-vertical"}
ScaleActions == {"distribute-and-scale-horizontal", "distribute-and-scale-vertical"}
MultiLayerAction ==
    AlignActions \cup DistributeActions \cup ScaleActions
    \cup {"duplicate", "delete", "merge", "export"}

\* The updates array handleMultiLayerAction builds for a geometry action.
multiLayerUpdates(action, sel, bbox) ==
    LET n == Len(sel)
        each(f(_)) == [i \in 1..n |-> [id |-> sel[i].id, props |-> f(sel[i])]]
        alignLeft(l) == [x |-> bbox.x]
        alignCenter(l) == [x |-> QSub(QAdd(bbox.x, Half(bbox.width)), Half(l.width))]
        alignRight(l) == [x |-> QSub(QAdd(bbox.x, bbox.width), l.width)]
        alignTop(l) == [y |-> bbox.y]
        alignMiddle(l) == [y |-> QSub(QAdd(bbox.y, Half(bbox.height)), Half(l.height))]
        alignBottom(l) == [y |-> QSub(QAdd(bbox.y, bbox.height), l.height)]
    IN  CASE action = "align-left" -> each(alignLeft)
          [] action = "align-center" -> each(alignCenter)
          [] action = "align-right" -> each(alignRight)
          [] action = "align-top" -> each(alignTop)
          [] action = "align-middle" -> each(alignMiddle)
          [] action = "align-bottom" -> each(alignBottom)
          [] action = "distribute-horizontal" ->
                LET sorted == sortedBy(sel, "x")
                    totalW == SumOf(sorted, 1, "width")
                    gap == QDiv(QSub(bbox.width, totalW), Num(n - 1))
                IN  DistributeLoop(sorted, 1, bbox.x, gap, "x", "width")
          [] action = "distribute-vertical" ->
                LET sorted == sortedBy(sel, "y")
                    totalH == SumOf(sorted, 1, "height")
                    gap == QDiv(QSub(bbox.height, totalH), Num(n - 1))
                IN  DistributeLoop(sorted, 1, bbox.y, gap, "y", "height")
          [] action = "distribute-and-scale-horizontal" ->
                LET sorted == sortedBy(sel, "x")
                    avgHeight == QDiv(SumOf(sorted, 1, "height"), Num(n))
                IN  IF QLe(avgHeight, Num(0)) THEN <<>>
                    ELSE ScaleHorizontalLoop(sorted, 1, bbox.x, avgHeight, bbox)
          [] action = "distribute-and-scale-vertical" ->
                LET sorted == sortedBy(sel, "y")
                    avgWidth == QDiv(SumOf(sorted, 1, "width"), Num(n))
                IN  IF QLe(avgWidth, Num(0)) THEN <<>>
                    ELSE ScaleVerticalLoop(sorted, 1, bbox.y, avgWidth, bbox)

GeometryActions == AlignActions \cup DistributeActions \cup ScaleActions

handleMultiLayerAction(action) ==
    \/ action = "delete" /\ deleteSelectedLayers
    \/ action = "duplicate" /\ duplicateSelectedLayers
    \/ action = "export" /\ handleExportSelectedLayers
    \/ /\ action \notin {"delete", "duplicate", "export"}
       /\ Len(selectedLayers) < 2
       /\ UNCHANGED vars
    \/ /\ action = "merge"
       /\ Len(selectedLayers) >= 2
       \* beginInteraction() here, and once more in handleMergeLayers
       /\ handleMergeLayers
    \/ /\ action \in GeometryActions
       /\ Len(selectedLayers) >= 2
       \* beginInteraction(), then updateMultipleLayers(updates, true)
       /\ \E sel \in {selectedLayers} :
          \E bbox \in {getBoundingBoxForLayers(sel)[1]} :
          \E updates \in {multiLayerUpdates(action, sel, bbox)} :
          \E newLayers \in {updatedLayers(layers, updates)} :
              /\ layers' = newLayers
              /\ IF Len(updates) > 0 /\ JSONstringify(layers) # JSONstringify(newLayers)
                 THEN CanPush(Render) /\ pushHistory(Render, newLayers)
                 ELSE UNCHANGED <<history, historyIndex>>
              /\ interactionStartHistoryState' = NullRef
              /\ UNCHANGED <<selectedLayerIds, canvasVars, uiVars, genVars, nextId, tasks>>

\* ------------------------------------------------------------ generation
\* What the sidebar holds when Generate is pressed: the number of prompts that
\* parseMultiPrompt(aiPrompt) yields (0 stands for one blank prompt), the preset
\* and the simple image mode.
GenerateInputs ==
    { [prompts |-> 0, aiPreset |-> "none", isSimpleImageMode |-> FALSE],
      [prompts |-> 1, aiPreset |-> "none", isSimpleImageMode |-> FALSE],
      [prompts |-> 1, aiPreset |-> "none", isSimpleImageMode |-> TRUE],
      [prompts |-> 2, aiPreset |-> "none", isSimpleImageMode |-> FALSE],
      [prompts |-> 2, aiPreset |-> "architecture", isSimpleImageMode |-> FALSE] }

\* The number of image urls the requests of one generation return together.
resultCount(in, sel) ==
    IF in.prompts > 1 THEN in.prompts
    ELSE IF Len(sel) > 0 /\ in.isSimpleImageMode THEN Len(sel)
    ELSE 1

loadedImages(n) == [i \in 1..n |-> LoadedImage]

\* { x: referenceBounds.x + referenceBounds.width + 20, y: referenceBounds.y }
positionBeside(bounds) ==
    IF bounds = <<>> THEN <<>>
    ELSE << [x |-> QAdd(QAdd(bounds[1].x, bounds[1].width), Num(20)), y |-> bounds[1].y] >>

\* The finally block of handleGenerateAILayer: it reads the controller the ref
\* holds now, which need not be the one this generation made.
generateFinally(current) ==
    /\ isLoading' = (IF current = 0 \/ current \notin aborted THEN FALSE ELSE isLoading)
    /\ generationController' = 0

\* handleGenerateAILayer up to its first await.
handleGenerateAILayer(in) ==
    /\ nextGen <= MaxRestarts
    /\ nextGen' = nextGen + 1
    /\ UNCHANGED <<sceneVars, canvasVars, nextId, aborted, cancelRequested>>
    /\ IF in.prompts = 0 /\ (Len(selectedLayers) = 0 \/ in.aiPreset = "none")
       THEN \* nothing to generate: return, through the finally block
            /\ error' = NoError
            /\ isLoading' = FALSE
            /\ generationController' = 0
            /\ UNCHANGED tasks
       ELSE IF Len(selectedLayers) > 0 /\ in.prompts > 1 /\ in.aiPreset = "architecture"
       THEN \* thrown and caught before anything was awaited
            /\ error' = ComposerError
            /\ isLoading' = FALSE
            /\ generationController' = 0
            /\ UNCHANGED tasks
       ELSE /\ error' = NoError
            /\ isLoading' = TRUE
            /\ generationController' = nextGen
            /\ tasks' = tasks \cup
                 {[kind |-> "generate", gid |-> nextGen, c |-> Render,
                   stage |-> IF Suspends(selectedLayers) THEN "capture" ELSE "requests",
                   n |-> resultCount(in, selectedLayers),
                   position |-> positionBeside(getBoundingBoxForLayers(selectedLayers))]}

nextStage(stage) == IF stage = "capture" THEN "requests" ELSE "images"

\* A Promise.all that settles as soon as one of the promises has been rejected.
PromiseAny(outcomes) == \E i \in DOMAIN outcomes : outcomes[i]

\* await Promise.all(promises): resolved when every promise was fulfilled,
\* rejected when one was rejected.
PromiseAll(outcomes) == \A i \in DOMAIN outcomes : outcomes[i]

\* The number of promises a generation awaits together at its stage: one capture
\* for each selected layer, then the requests, then one image load for each url.
awaited(task) ==
    IF task.stage = "capture"
    THEN Len(selectedLayersOf(task.c.layers, task.c.selectedLayerIds))
    ELSE task.n

\* The continuation of a generation after one of its awaits: ok tells whether
\* the awaited Promise.all resolved (every request succeeded) or rejected.
generateResumed(task, ok) ==
    /\ task \in tasks /\ task.kind = "generate"
    /\ UNCHANGED <<aborted, nextGen, cancelRequested>>
    /\ IF task.gid \in aborted
       THEN \* `if (signal.aborted) return`, or "Cancelled" thrown and caught
            /\ generateFinally(generationController)
            /\ tasks' = tasks \ {task}
            /\ UNCHANGED <<sceneVars, canvasVars, nextId, error>>
       ELSE IF ~ok
       THEN /\ error' = ComposerError
            /\ generateFinally(generationController)
            /\ tasks' = tasks \ {task}
            /\ UNCHANGED <<sceneVars, canvasVars, nextId>>
       ELSE IF task.stage # "images"
       THEN /\ tasks' = (tasks \ {task}) \cup {[task EXCEPT !.stage = nextStage(task.stage)]}
            /\ UNCHANGED <<sceneVars, canvasVars, nextId, uiVars, generationController>>
       ELSE /\ addImagesAsLayers(task.c, loadedImages(task.n), task.position)
            /\ generateFinally(generationController)
            /\ tasks' = tasks \ {task}
            /\ UNCHANGED error

generationsInFlight == {t.gid : t \in {u \in tasks : u.kind \in {"generate", "preset"}}}

handleCancelGeneration ==
    /\ aborted' = IF generationController # 0
                  THEN aborted \cup {generationController} ELSE aborted
    /\ isLoading' = FALSE
    /\ cancelRequested' = cancelRequested \cup generationsInFlight
    /\ UNCHANGED <<sceneVars, canvasVars, nextId, tasks, error, generationController, nextGen>>

PresetError == "errorMessage"

\* What the sidebar holds when a preset is run.
PresetInputs ==
    { [loadedPreset |-> FALSE, isSimpleImageMode |-> FALSE],
      [loadedPreset |-> TRUE, isSimpleImageMode |-> FALSE],
      [loadedPreset |-> TRUE, isSimpleImageMode |-> TRUE] }

\* handleGenerateFromPreset up to its first await. Batch mode sends one request
\* for each selected layer, the other mode one request.
handleGenerateFromPreset(in) ==
    IF ~in.loadedPreset
    THEN UNCHANGED vars
    ELSE /\ nextGen <= MaxGen
         /\ nextGen' = nextGen + 1
         /\ isLoading' = TRUE
         /\ error' = NoError
         /\ tasks' = tasks \cup
              {[kind |-> "preset", gid |-> nextGen, c |-> Render, stage |-> "requests",
                n |-> IF in.isSimpleImageMode /\ Len(selectedLayers) > 1
                      THEN Len(selectedLayers) ELSE 1,
                position |-> getBoundingBoxForLayers(
                                IF Len(selectedLayers) > 0 THEN selectedLayers
                                ELSE SubSeq(layers, 1, IF Len(layers) > 0 THEN 1 ELSE 0))]}
         /\ UNCHANGED <<sceneVars, canvasVars, nextId, generationController, aborted,
                        cancelRequested>>

\* The continuation of a preset generation after one of its awaits.
presetResumed(task, ok) ==
    /\ task \in tasks /\ task.kind = "preset"
    /\ UNCHANGED genVars
    /\ IF ~ok
       THEN /\ error' = PresetError
            /\ isLoading' = FALSE
            /\ tasks' = tasks \ {task}
            /\ UNCHANGED <<sceneVars, canvasVars, nextId>>
       ELSE IF task.stage # "images"
       THEN /\ tasks' = (tasks \ {task}) \cup {[task EXCEPT !.stage = nextStage(task.stage)]}
            /\ UNCHANGED <<sceneVars, canvasVars, nextId, uiVars>>
       ELSE /\ addImagesAsLayers(task.c, loadedImages(task.n), task.position)
            /\ isLoading' = FALSE
            /\ tasks' = tasks \ {task}
            /\ UNCHANGED error

\* ---------------------------------------------------------- specification
\* The ordered selections the canvas can make of the layers on display.
SelectionInputs ==
    LET ids == {layers[i].id : i \in 1..Len(layers)}
    IN  {<<>>} \cup {<<a>> : a \in ids} \cup {[i \in 1..Len(layers) |-> layers[i].id]}

\* The updates a canvas gesture passes for the selected layers.
UpdatesInputs ==
    {[i \in 1..Len(selectedLayerIds) |-> [id |-> selectedLayerIds[i], props |-> p]] :
        p \in PropsInputs}

Did(event) == lastEvent' = IF vars' = vars THEN lastEvent ELSE event

\* The array on display when the operation that is about to commit began: for
\* an update, the one beginInteraction kept.
shownAtStart ==
    IF interactionStartHistoryState # NullRef THEN interactionStartHistoryState[1] ELSE layers

\* The editing handlers, which all run to completion within one event. The
\* canvas and the sidebar send updates within a gesture they began.
Next ==
    \/ beginInteraction /\ Did([op |-> "beginInteraction"])
    \/ \E id \in {layers[i].id : i \in 1..Len(layers)}, p \in PropsInputs, f \in BOOLEAN :
          /\ interactionStartHistoryState # NullRef
          /\ updateLayerProperties(id, p, f)
          /\ Did([op |-> "updateLayerProperties", isFinalChange |-> f,
                  before |-> shownAtStart, pushed |-> history' # history])
    \/ \E u \in UpdatesInputs, f \in BOOLEAN :
          /\ interactionStartHistoryState # NullRef
          /\ updateMultipleLayers(u, f)
          /\ Did([op |-> "updateMultipleLayers", isFinalChange |-> f,
                  before |-> shownAtStart, pushed |-> history' # history])
    \/ handleUndo
          /\ Did([op |-> "handleUndo",
                  redoes |-> IF "pushed" \in DOMAIN lastEvent /\ lastEvent.pushed
                             THEN <<layers>> ELSE <<>>])
    \/ handleRedo /\ Did([op |-> "handleRedo"])
    \/ handleCloseAndReset /\ Did([op |-> "handleCloseAndReset"])
    \/ \E file \in JsonInputs :
          handleJsonFile(file)
          /\ Did([op |-> "handleJsonFile", loaded |-> reachesSetters(file),
                  valid |-> file = ValidDocument])
    \/ handleAddTextLayer
          /\ Did([op |-> "handleAddTextLayer", before |-> layers, pushed |-> TRUE])
    \/ \E ids \in SelectionInputs :
          setSelectedLayerIds(ids) /\ Did([op |-> "setSelectedLayerIds"])
    \/ deleteSelectedLayers
          /\ Did([op |-> "deleteSelectedLayers", before |-> layers, pushed |-> TRUE])
    \/ duplicateSelectedLayers
          /\ Did([op |-> "duplicateSelectedLayers", before |-> layers, pushed |-> TRUE])
    \/ \E d \in {"up", "down"} :
          handleMoveLayers(d)
          /\ Did([op |-> "handleMoveLayers", before |-> layers, pushed |-> TRUE])

Spec == Init /\ [][Next]_allVars

\* The multi-layer operations of the toolbar, with the rasterizations they start.
NextMulti ==
    \/ handleJsonFile(ValidDocument) /\ Did([op |-> "handleJsonFile"])
    \/ handleAddTextLayer /\ Did([op |-> "handleAddTextLayer"])
    \/ \E ids \in SelectionInputs :
          setSelectedLayerIds(ids) /\ Did([op |-> "setSelectedLayerIds"])
    \/ \E a \in MultiLayerAction :
          /\ handleMultiLayerAction(a)
          /\ Did([op |-> "handleMultiLayerAction", action |-> a,
                  n |-> Len(selectedLayers), suspended |-> tasks' # tasks])
    \/ \E task \in tasks :
          mergeCaptured(task) /\ Did([op |-> "mergeCaptured", task |-> task])
    \/ \E task \in tasks :
          mergeCaptureFailed(task) /\ Did([op |-> "mergeCaptureFailed", task |-> task])
    \/ \E task \in tasks :
          exportDone(task) /\ Did([op |-> "exportDone", task |-> task])
    \/ \E task \in tasks :
          exportFailed(task) /\ Did([op |-> "exportFailed", task |-> task])

SpecMulti == Init /\ [][NextMulti]_allVars

\* The operations that suspend, interleaved with handlers that commit.
NextAsync ==
    \/ handleJsonFile(ValidDocument) /\ Did([op |-> "handleJsonFile"])
    \/ handleAddTextLayer /\ Did([op |-> "handleAddTextLayer"])
    \/ \E ids \in SelectionInputs :
          setSelectedLayerIds(ids) /\ Did([op |-> "setSelectedLayerIds"])
    \/ deleteSelectedLayers /\ Did([op |-> "deleteSelectedLayers"])
    \/ handleUndo /\ Did([op |-> "handleUndo"])
    \/ handleRedo /\ Did([op |-> "handleRedo"])
    \/ handleAddImage /\ Did([op |-> "handleAddImage"])
    \/ \E task \in tasks : addImageLoaded(task) /\ Did([op |-> "addImageLoaded"])
    \/ \E task \in tasks : addImageFailed(task) /\ Did([op |-> "addImageFailed"])
    \/ handleMergeLayers /\ Did([op |-> "handleMergeLayers"])
    \/ \E task \in tasks : mergeCaptured(task) /\ Did([op |-> "mergeCaptured"])
    \/ \E task \in tasks : mergeCaptureFailed(task) /\ Did([op |-> "mergeCaptureFailed"])
    \/ handleBakeSelectedLayer /\ Did([op |-> "handleBakeSelectedLayer"])
    \/ \E task \in tasks : bakeCaptured(task) /\ Did([op |-> "bakeCaptured"])
    \/ \E task \in tasks : bakeCaptureFailed(task) /\ Did([op |-> "bakeCaptureFailed"])

SpecAsync == Init /\ [][NextAsync]_allVars

\* The generations, with the cancel button. The sidebar offers Generate while
\* nothing is loading.
NextGen ==
    \/ handleJsonFile(ValidDocument) /\ Did([op |-> "handleJsonFile"])
    \/ \E ids \in SelectionInputs :
          setSelectedLayerIds(ids) /\ Did([op |-> "setSelectedLayerIds"])
    \/ \E in \in GenerateInputs :
          /\ ~isLoading
          /\ nextGen <= MaxGen
          /\ handleGenerateAILayer(in)
          /\ Did([op |-> "handleGenerateAILayer"])
    \/ \E task \in tasks : \E outcomes \in [1..awaited(task) -> BOOLEAN] :
          /\ generateResumed(task, PromiseAll(outcomes))
          /\ Did([op |-> "generateResumed", task |-> task, outcomes |-> outcomes])
    \/ \E in \in PresetInputs :
          /\ ~isLoading
          /\ handleGenerateFromPreset(in)
          /\ Did([op |-> "handleGenerateFromPreset"])
    \/ \E task \in tasks : \E outcomes \in [1..awaited(task) -> BOOLEAN] :
          /\ presetResumed(task, PromiseAll(outcomes))
          /\ Did([op |-> "presetResumed", task |-> task, outcomes |-> outcomes])
    \/ handleCancelGeneration /\ Did([op |-> "handleCancelGeneration"])

SpecGen == Init /\ [][NextGen]_allVars

\* Generate and Cancel pressed in turn on an empty canvas with a prompt in the
\* sidebar: Generate can be pressed whenever the loading flag is off.
NextRestart ==
    \/ \E in \in {g \in GenerateInputs : g.prompts > 0} :
          /\ ~isLoading
          /\ handleGenerateAILayer(in)
          /\ Did([op |-> "handleGenerateAILayer", gid |-> nextGen])
    \/ \E task \in tasks : \E outcomes \in [1..awaited(task) -> BOOLEAN] :
          /\ generateResumed(task, PromiseAll(outcomes))
          /\ Did([op |-> "generateResumed", task |-> task, outcomes |-> outcomes])
    \/ handleCancelGeneration /\ Did([op |-> "handleCancelGeneration"])

SpecRestart == Init /\ [][NextRestart]_allVars

\* The scenes the toolbar is tried on: three layers each, apart from each other,
\* overlapping with equal coordinates, and one inside the other.
SceneLayer(id, x, y, w, h) == [DocLayer(id, x, w, h) EXCEPT !.y = Num(y)]

SceneInputs ==
    { << SceneLayer(101, 0, 0, 20, 20), SceneLayer(102, 30, 40, 20, 30),
         SceneLayer(103, 100, 10, 40, 20) >>,
      << SceneLayer(101, 0, 0, 40, 20), SceneLayer(102, 0, 10, 20, 40),
         SceneLayer(103, 10, 5, 60, 10) >>,
      << SceneLayer(101, 0, 0, 100, 100), SceneLayer(102, 10, 20, 50, 50),
         SceneLayer(103, 60, 60, 10, 30) >> }

\* The composer after one of the scenes was loaded as a document.
InitToolbar ==
    /\ layers \in SceneInputs
    /\ history = <<layers>>
    /\ historyIndex = 0
    /\ interactionStartHistoryState = NullRef
    /\ selectedLayerIds = <<>>
    /\ canvasSettings = Spread(ValidDocument.canvasSettings,
                               [grid |-> defaultGridSettings,
                                guides |-> defaultGuideSettings])
    /\ isInfiniteCanvas = FALSE
    /\ canvasInitialized = TRUE
    /\ isLoading = FALSE
    /\ error = NoError
    /\ nextId = 1
    /\ tasks = {}
    /\ generationController = 0
    /\ aborted = {}
    /\ nextGen = 1
    /\ cancelRequested = {}
    /\ lastEvent = [op |-> "init"]

\* The selections in every order in which up to three layers can be clicked.
OrderedSelections ==
    LET ids == {layers[i].id : i \in 1..Len(layers)}
    IN  {<<>>} \cup {<<a>> : a \in ids}
        \cup {q \in [1..2 -> ids] : q[1] # q[2]}
        \cup {q \in [1..3 -> ids] : q[1] # q[2] /\ q[1] # q[3] /\ q[2] # q[3]}

\* A toolbar command was given, whether or not it changed anything.
Tried(event) == lastEvent' = event

\* No command was given yet in this run.
Untried == lastEvent.op \in {"init", "setSelectedLayerIds"}

\* The toolbar and the keyboard commands on a selection: a run makes a
\* selection, gives one command and sees it through.
NextToolbar ==
    \/ \E ids \in OrderedSelections :
          /\ Untried
          /\ setSelectedLayerIds(ids)
          /\ Did([op |-> "setSelectedLayerIds"])
    \/ \E a \in MultiLayerAction :
          /\ Untried
          /\ handleMultiLayerAction(a)
          /\ Tried([op |-> "handleMultiLayerAction", action |-> a])
    \/ \E direction \in {"up", "down"} :
          /\ Untried
          /\ handleMoveLayers(direction)
          /\ Tried([op |-> "handleMoveLayers", direction |-> direction,
                    before |-> layers])
    \/ /\ Untried
       /\ handleMergeLayers
       /\ Tried([op |-> "handleMergeLayers"])
    \/ /\ Untried
       /\ handleBakeSelectedLayer
       /\ Tried([op |-> "handleBakeSelectedLayer"])
    \/ \E task \in tasks :
          mergeCaptured(task) /\ Did([op |-> "mergeCaptured", task |-> task])
    \/ \E task \in tasks :
          mergeCaptureFailed(task) /\ Did([op |-> "mergeCaptureFailed", task |-> task])
    \/ \E task \in tasks :
          bakeCaptured(task) /\ Did([op |-> "bakeCaptured", task |-> task])
    \/ \E task \in tasks :
          bakeCaptureFailed(task) /\ Did([op |-> "bakeCaptureFailed", task |-> task])
    \/ \E task \in tasks :
          exportDone(task) /\ Did([op |-> "exportDone", task |-> task])
    \/ \E task \in tasks :
          exportFailed(task) /\ Did([op |-> "exportFailed", task |-> task])

SpecToolbar == InitToolbar /\ [][NextToolbar]_allVars

\* ------------------------------------------------------------ persistence
\* downloadJson(canvasState, name): JSON.stringify(data, null, 2) goes to a file.
\* The file is held as JSON.parse returns its text: a key of a layer that holds
\* undefined is not written; numbers, strings and booleans come back as they were.
downloadJson(data) ==
    [text |-> "json", settings |-> "object", layersKind |-> "array",
     canvasSettings |-> data.canvasSettings,
     layers |-> JSONstringify(data.layers)]

\* { canvasSettings: { ...canvasSettings, isInfinite: isInfiniteCanvas }, layers }
canvasState ==
    [canvasSettings |-> Spread(canvasSettings, [isInfinite |-> isInfiniteCanvas]),
     layers |-> layers]

\* The continuation of handleSave after `await captureCanvas(...)`:
\* addImagesToGallery, handleCloseAndReset, and the finally block.
saveResolved ==
    /\ layers' = <<>>
    /\ selectedLayerIds' = <<>>
    /\ canvasSettings' = defaultCanvasSettings
    /\ error' = NoError
    /\ canvasInitialized' = FALSE
    /\ history' = << <<>> >>
    /\ historyIndex' = 0
    /\ isInfiniteCanvas' = TRUE
    /\ isLoading' = FALSE
    /\ UNCHANGED <<interactionStartHistoryState, genVars, nextId>>

\* handleSave up to its await. The file is written before anything is awaited;
\* an infinite canvas is not captured and stays open.
handleSave ==
    IF isInfiniteCanvas
    THEN /\ error' = NoError
         /\ isLoading' = FALSE
         /\ UNCHANGED <<sceneVars, canvasVars, genVars, nextId, tasks>>
    ELSE IF Suspends(layers)
    THEN /\ CanStartTask
         /\ tasks' = tasks \cup {[kind |-> "save"]}
         /\ error' = NoError
         /\ isLoading' = TRUE
         /\ UNCHANGED <<sceneVars, canvasVars, genVars, nextId>>
    ELSE /\ saveResolved
         /\ UNCHANGED tasks

saveCaptured(task) ==
    /\ task \in tasks /\ task.kind = "save"
    /\ saveResolved
    /\ tasks' = tasks \ {task}

\* captureCanvas rejected: the catch and finally blocks.
saveCaptureFailed(task) ==
    /\ task \in tasks /\ task.kind = "save"
    /\ error' = ComposerError
    /\ isLoading' = FALSE
    /\ tasks' = tasks \ {task}
    /\ UNCHANGED <<sceneVars, canvasVars, genVars, nextId>>

TextLayer(id) ==
    [id |-> id, type |-> "text", text |-> "Hello", fontFamily |-> "Be Vietnam Pro",
     fontSize |-> 50, fontWeight |-> "400", fontStyle |-> "normal",
     textTransform |-> "none", textAlign |-> "left", color |-> "#000000",
     lineHeight |-> 6, x |-> Num(5), y |-> Num(7), width |-> Num(300),
     height |-> Num(60), rotation |-> 90, opacity |-> 80, blendMode |-> "multiply",
     isVisible |-> FALSE, isLocked |-> TRUE]

\* The composer states a document is saved from: the layers, the canvas
\* settings and whether the canvas is infinite.
SaveInputs ==
    { [layers |-> ls, canvasSettings |-> cs, isInfiniteCanvas |-> inf] :
        ls \in { <<>>,
                 << SceneLayer(101, 0, 0, 20, 20), TextLayer(102) >>,
                 << TextLayer(101), SceneLayer(102, 30, 40, 20, 30) >> },
        cs \in { defaultCanvasSettings,
                 [width |-> 512, height |-> 256, background |-> "#112233",
                  grid |-> [visible |-> TRUE, snap |-> TRUE, size |-> 25, color |-> "#000000"],
                  guides |-> [enabled |-> FALSE, color |-> "#00ff00"],
                  isInfinite |-> TRUE] },
        inf \in BOOLEAN }

InitSave ==
    /\ \E in \in SaveInputs :
          /\ layers = in.layers
          /\ canvasSettings = in.canvasSettings
          /\ isInfiniteCanvas = in.isInfiniteCanvas
    /\ history = <<layers>>
    /\ historyIndex = 0
    /\ interactionStartHistoryState = NullRef
    /\ selectedLayerIds = <<>>
    /\ canvasInitialized = TRUE
    /\ isLoading = FALSE
    /\ error = NoError
    /\ nextId = 1
    /\ tasks = {}
    /\ generationController = 0
    /\ aborted = {}
    /\ nextGen = 1
    /\ cancelRequested = {}
    /\ lastEvent = [op |-> "init"]

\* The files written so far: the last one is kept with the event that wrote it
\* and with the events that followed it.
Written == IF "file" \in DOMAIN lastEvent THEN {lastEvent.file} ELSE {}

\* Layers are selected and baked, the document is saved, and a saved file is
\* opened again.
NextSave ==
    \/ \E id \in {layers[i].id : i \in 1..Len(layers)} :
          /\ setSelectedLayerIds(<<id>>)
          /\ Tried([op |-> "setSelectedLayerIds"])
    \/ /\ handleBakeSelectedLayer
       /\ Tried([op |-> "handleBakeSelectedLayer"])
    \/ \E task \in tasks :
          bakeCaptured(task) /\ Tried([op |-> "bakeCaptured"])
    \/ \E task \in tasks :
          bakeCaptureFailed(task) /\ Tried([op |-> "bakeCaptureFailed"])
    \/ /\ handleSave
       /\ Tried([op |-> "handleSave", file |-> downloadJson(canvasState),
                 saved |-> canvasState])
    \/ \E task \in tasks :
          /\ saveCaptured(task)
          /\ Tried([lastEvent EXCEPT !.op = "saveCaptured"])
    \/ \E task \in tasks :
          /\ saveCaptureFailed(task)
          /\ Tried([lastEvent EXCEPT !.op = "saveCaptureFailed"])
    \/ \E file \in Written :
          /\ tasks = {}
          /\ handleJsonFile(file)
          /\ Tried([lastEvent EXCEPT !.op = "handleJsonFile"])

SpecSave == InitSave /\ [][NextSave]_allVars

\* --------------------------------------------------------------- PNG metadata
\* A 32-bit unsigned word is held as two 16-bit halves, a byte as 0..255.
Word(hi, lo) == [hi |-> hi, lo |-> lo]

RECURSIVE XorBits(_, _, _)
\* a ^ b on n bits
XorBits(a, b, n) ==
    IF n = 0 THEN 0
    ELSE (((a % 2) + (b % 2)) % 2) + 2 * XorBits(a \div 2, b \div 2, n - 1)

WordXor(a, b) ==
    CHOOSE w \in {Word(XorBits(x.hi, y.hi, 16), XorBits(x.lo, y.lo, 16)) :
                    x \in {a}, y \in {b}} : TRUE

\* w >>> n for n = 1 and n = 8
ShiftRight(w, by) ==
    CHOOSE r \in {Word(x.hi \div by, (x.lo \div by) + (x.hi % by) * (65536 \div by)) :
                    x \in {w}} : TRUE

RECURSIVE TableLoop(_, _)
\* for (j = 0; j < 8; j++) c = (c & 1) ? (0xEDB88320 ^ (c >>> 1)) : (c >>> 1)
TableLoop(c, j) ==
    IF j = 8 THEN c
    ELSE TableLoop(IF c.lo % 2 = 1
                   THEN WordXor(Word(60856, 33568), ShiftRight(c, 2))
                   ELSE ShiftRight(c, 2),
                   j + 1)

\* table[i] of makeTable
table(i) == TableLoop(Word(0, i), 0)

RECURSIVE CrcLoop(_, _, _)
\* crc = (crc >>> 8) ^ table[(crc ^ bytes[i]) & 0xFF], worked out byte by byte
CrcLoop(crc, bytes, i) ==
    IF i > Len(bytes) THEN crc
    ELSE CHOOSE r \in {CrcLoop(next, bytes, i + 1) :
                          next \in {WordXor(ShiftRight(crc, 256),
                                            table(XorBits(crc.lo % 256, bytes[i], 8)))}} : TRUE

\* crc32(bytes): from crc = -1, and (crc ^ -1) >>> 0 at the end
crc32(bytes) == WordXor(CrcLoop(Word(65535, 65535), bytes, 1), Word(65535, 65535))

\* DataView.setUint32(offset, value, false): the four bytes, big-endian.
Uint32Bytes(w) == << w.hi \div 256, w.hi % 256, w.lo \div 256, w.lo % 256 >>

\* new TextEncoder().encode of an ASCII chunk type
IEND == << 73, 69, 78, 68 >>
apIX == << 97, 112, 73, 88 >>

\* array.slice(start, end) of a Uint8Array, 0-based with the end excluded; an
\* index below zero counts from the end and every index is clamped.
Slice(bytes, start, end) ==
    LET n == Len(bytes)
        clamp(k) == IF k < 0 THEN (IF n + k < 0 THEN 0 ELSE n + k)
                    ELSE IF k > n THEN n ELSE k
    IN  SubSeq(bytes, clamp(start) + 1, clamp(end))

\* A string is the sequence of its code points; a JSON object is the sequence
\* of its properties [key, value] in insertion order, a value being a number
\* [t |-> "number", n] or a string [t |-> "string", s].
RECURSIVE Escaped(_, _)
\* the characters of a string literal: " and \ take a backslash
Escaped(s, i) ==
    IF i > Len(s) THEN <<>>
    ELSE (IF s[i] \in {34, 92} THEN <<92, s[i]>> ELSE <<s[i]>>) \o Escaped(s, i + 1)

Quote(s) == <<34>> \o Escaped(s, 1) \o <<34>>

RECURSIVE Digits(_)
Digits(n) == IF n < 10 THEN <<48 + n>> ELSE Digits(n \div 10) \o <<48 + (n % 10)>>

StringifyValue(v) == IF v.t = "number" THEN Digits(v.n) ELSE Quote(v.s)

RECURSIVE StringifyMembers(_, _)
StringifyMembers(obj, i) ==
    IF i > Len(obj) THEN <<>>
    ELSE (IF i > 1 THEN <<44>> ELSE <<>>)
         \o Quote(obj[i].key) \o <<58>> \o StringifyValue(obj[i].value)
         \o StringifyMembers(obj, i + 1)

\* JSON.stringify(jsonData)
StringifyObject(obj) == <<123>> \o StringifyMembers(obj, 1) \o <<125>>

RECURSIVE TextEncode(_, _)
\* new TextEncoder().encode(str): UTF-8, for code points below U+0800
TextEncode(str, i) ==
    IF i > Len(str) THEN <<>>
    ELSE (IF str[i] < 128 THEN <<str[i]>>
          ELSE <<192 + (str[i] \div 64), 128 + (str[i] % 64)>>)
         \o TextEncode(str, i + 1)

RECURSIVE TextDecode(_, _)
\* new TextDecoder().decode(bytes): a byte that starts no sequence of one or
\* two bytes decodes to U+FFFD
TextDecode(bytes, i) ==
    IF i > Len(bytes) THEN <<>>
    ELSE IF bytes[i] < 128 THEN <<bytes[i]>> \o TextDecode(bytes, i + 1)
    ELSE IF /\ bytes[i] \in 194..223
            /\ i < Len(bytes)
            /\ bytes[i + 1] \in 128..191
    THEN <<(bytes[i] - 192) * 64 + (bytes[i + 1] - 128)>> \o TextDecode(bytes, i + 2)
    ELSE <<65533>> \o TextDecode(bytes, i + 1)

\* The parsers return [ok, value, next]: next is the place after what was read.
Failed == [ok |-> FALSE, value |-> <<>>, next |-> 0]

RECURSIVE ReadString(_, _, _)
\* text[i] is the first character after the opening quote
ReadString(text, i, acc) ==
    IF i > Len(text) THEN Failed
    ELSE IF text[i] = 34 THEN [ok |-> TRUE, value |-> acc, next |-> i + 1]
    ELSE IF text[i] = 92
    THEN IF i < Len(text) /\ text[i + 1] \in {34, 92}
         THEN ReadString(text, i + 2, Append(acc, text[i + 1]))
         ELSE Failed
    ELSE ReadString(text, i + 1, Append(acc, text[i]))

RECURSIVE ReadNumber(_, _, _)
ReadNumber(text, i, acc) ==
    IF i <= Len(text) /\ text[i] \in 48..57
    THEN ReadNumber(text, i + 1, acc * 10 + (text[i] - 48))
    ELSE [ok |-> TRUE, value |-> [t |-> "number", n |-> acc], next |-> i]

ReadValue(text, i) ==
    IF i > Len(text) THEN Failed
    ELSE IF text[i] = 34
    THEN LET str == ReadString(text, i + 1, <<>>)
         IN  IF str.ok
             THEN [ok |-> TRUE, value |-> [t |-> "string", s |-> str.value],
                   next |-> str.next]
             ELSE Failed
    ELSE IF text[i] \in 48..57 THEN ReadNumber(text, i, 0)
    ELSE Failed

RECURSIVE ReadMembers(_, _, _)
\* text[i] is where a key must begin
ReadMembers(text, i, acc) ==
    IF i > Len(text) \/ text[i] # 34 THEN Failed
    ELSE LET key == ReadString(text, i + 1, <<>>)
         IN  IF ~key.ok \/ key.next > Len(text) \/ text[key.next] # 58 THEN Failed
             ELSE LET val == ReadValue(text, key.next + 1)
                      obj == Append(acc, [key |-> key.value, value |-> val.value])
                  IN  IF ~val.ok \/ val.next > Len(text) THEN Failed
                      ELSE IF text[val.next] = 125
                      THEN [ok |-> TRUE, value |-> obj, next |-> val.next + 1]
                      ELSE IF text[val.next] = 44
                      THEN ReadMembers(text, val.next + 1, obj)
                      ELSE Failed

\* JSON.parse(jsonString) of an object: [ok |-> FALSE] is a SyntaxError thrown.
JSONparse(text) ==
    IF Len(text) < 2 \/ text[1] # 123 THEN Failed
    ELSE IF text[2] = 125
    THEN IF Len(text) = 2 THEN [ok |-> TRUE, value |-> <<>>, next |-> 3] ELSE Failed
    ELSE LET obj == ReadMembers(text, 2, <<>>)
         IN  IF obj.ok /\ obj.next = Len(text) + 1 THEN obj ELSE Failed

\* A chunk whose CRC is taken over the data alone.
fullChunkCrcOfData(chunkType, chunkData) ==
    Uint32Bytes(Word(Len(chunkData) \div 65536, Len(chunkData) % 65536))
    \o chunkType \o chunkData \o Uint32Bytes(crc32(chunkData))

\* The chunk embedJsonInPng builds: the length of the data, the type, the data
\* and the CRC of type and data, as the PNG format lays every chunk out.
fullChunk(chunkType, chunkData) ==
    Uint32Bytes(Word(Len(chunkData) \div 65536, Len(chunkData) % 65536))
    \o chunkType \o chunkData \o Uint32Bytes(crc32(chunkType \o chunkData))

PngMime == "image/png"

\* embedJsonInPng(imageDataUrl, jsonData, enabled): a data URL is held as its
\* media type and the bytes its base64 part stands for.
embedJsonInPng(imageDataUrl, jsonData, enabled) ==
    IF ~enabled \/ imageDataUrl.mime # PngMime THEN imageDataUrl
    ELSE LET view == imageDataUrl.bytes
             iendIndex == Len(view) - 12
             chunkData == TextEncode(StringifyObject(jsonData), 1)
         IN  IF iendIndex < 0
             THEN \* newPngData.set(fullChunk, iendIndex) throws a RangeError
                  imageDataUrl
             ELSE [mime |-> PngMime,
                   bytes |-> Slice(view, 0, iendIndex) \o fullChunk(apIX, chunkData)
                             \o Slice(view, iendIndex, Len(view))]

\* view.getUint32(offset, false) of a chunk length below 2^31
getUint32(bytes, offset) ==
    ((bytes[offset + 1] * 256 + bytes[offset + 2]) * 256 + bytes[offset + 3]) * 256
    + bytes[offset + 4]

Signature == << 137, 80, 78, 71, 13, 10, 26, 10 >>

RECURSIVE ExtractLoop(_, _)
\* The while loop of extractJsonFromPng from a 0-based offset; null is <<>> and
\* an object obj is <<obj>>. A read past the end throws, which ends in null.
ExtractLoop(bytes, offset) ==
    IF offset >= Len(bytes) \/ offset + 4 > Len(bytes) THEN <<>>
    ELSE LET length == getUint32(bytes, offset)
             type == Slice(bytes, offset + 4, offset + 8)
         IN  IF type = apIX
             THEN LET parsed == JSONparse(TextDecode(
                                    Slice(bytes, offset + 8, offset + 8 + length), 1))
                  IN  IF parsed.ok THEN <<parsed.value>> ELSE <<>>
             ELSE IF type = IEND THEN <<>>
             ELSE ExtractLoop(bytes, offset + 12 + length)

extractJsonFromPng(file) ==
    IF Len(file) < 8 \/ SubSeq(file, 1, 8) # Signature THEN <<>>
    ELSE ExtractLoop(file, 8)

Str(s) == [t |-> "string", s |-> s]
Number(n) == [t |-> "number", n |-> n]

\* The JSON objects that are embedded: {}, {"a":7}, {"a":"a"}, {"é":"é"},
\* {"a":"\"\\"} and {"a":12,"b":"ab"}.
JsonObjects ==
    { <<>>,
      << [key |-> <<97>>, value |-> Number(7)] >>,
      << [key |-> <<97>>, value |-> Str(<<97>>)] >>,
      << [key |-> <<233>>, value |-> Str(<<233>>)] >>,
      << [key |-> <<97>>, value |-> Str(<<34, 92>>)] >>,
      << [key |-> <<97>>, value |-> Number(12)],
         [key |-> <<98>>, value |-> Str(<<97, 98>>)] >> }

IHDR == fullChunk(<<73, 72, 68, 82>>, <<0, 0, 0, 1, 0, 0, 0, 1, 8, 6, 0, 0, 0>>)
IDAT == fullChunk(<<73, 68, 65, 84>>, <<120, 156>>)

\* PNG files: the signature, then chunks, the last one an empty IEND. The
\* third holds a text chunk whose data reads "apIX"; the fourth holds an apIX
\* chunk already, as a file that embedJsonInPng wrote does.
PngInputs ==
    { Signature \o IHDR \o fullChunk(IEND, <<>>),
      Signature \o IHDR \o IDAT \o fullChunk(IEND, <<>>),
      Signature \o IHDR \o fullChunk(<<116, 69, 88, 116>>, apIX) \o IDAT
                \o fullChunk(IEND, <<>>),
      Signature \o IHDR \o IDAT
                \o fullChunk(apIX, TextEncode(StringifyObject(
                       << [key |-> <<98>>, value |-> Number(1)] >>), 1))
                \o fullChunk(IEND, <<>>) }

\* Files that are opened as they are: one that does not begin with the PNG
\* signature and holds an apIX chunk, and a PNG whose apIX chunk comes after IEND.
OtherFiles ==
    { << 255, 216, 255, 224, 0, 16, 74, 70 >>
         \o fullChunk(apIX, TextEncode(StringifyObject(<<>>), 1))
         \o fullChunk(IEND, <<>>),
      Signature \o IHDR \o fullChunk(IEND, <<>>)
                \o fullChunk(apIX, TextEncode(StringifyObject(<<>>), 1)) }

\* One call of embedJsonInPng and one of extractJsonFromPng on its result; the
\* composer takes no part, and lastEvent holds the calls with their results.
InitPng ==
    /\ layers = <<>>
    /\ history = << <<>> >>
    /\ historyIndex = 0
    /\ interactionStartHistoryState = NullRef
    /\ selectedLayerIds = <<>>
    /\ canvasSettings = defaultCanvasSettings
    /\ isInfiniteCanvas = TRUE
    /\ canvasInitialized = FALSE
    /\ isLoading = FALSE
    /\ error = NoError
    /\ nextId = 1
    /\ tasks = {}
    /\ generationController = 0
    /\ aborted = {}
    /\ nextGen = 1
    /\ cancelRequested = {}
    /\ \/ \E png \in PngInputs, jsonData \in JsonObjects, enabled \in BOOLEAN :
             lastEvent = [op |-> "init", png |-> png, jsonData |-> jsonData,
                          enabled |-> enabled]
       \/ \E file \in OtherFiles :
             lastEvent = [op |-> "init", png |-> file, jsonData |-> <<>>,
                          enabled |-> FALSE]

embedCalled ==
    /\ lastEvent.op = "init"
    /\ lastEvent' = [op |-> "embedJsonInPng", png |-> lastEvent.png,
                     jsonData |-> lastEvent.jsonData, enabled |-> lastEvent.enabled,
                     embedded |-> embedJsonInPng([mime |-> PngMime, bytes |-> lastEvent.png],
                                                 lastEvent.jsonData, lastEvent.enabled)]
    /\ UNCHANGED vars

extractCalled ==
    /\ lastEvent.op = "embedJsonInPng"
    /\ lastEvent' = [op |-> "extractJsonFromPng", png |-> lastEvent.png,
                     jsonData |-> lastEvent.jsonData, enabled |-> lastEvent.enabled,
                     embedded |-> lastEvent.embedded,
                     extracted |-> extractJsonFromPng(lastEvent.embedded.bytes)]
    /\ UNCHANGED vars

NextPng == embedCalled \/ extractCalled

SpecPng == InitPng /\ [][NextPng]_allVars

\* ------------------------------------------------------------ object identity
\* Which object each layer of an array is: a layer array is followed here by the
\* sequence of the references of its elements. lastEvent carries them: live for
\* layers, entries for the arrays of history, scratch for the array the
\* interaction-start ref holds, and fresh, the next reference `{ ...l }` takes.
MaxObjects == 9

\* prevLayers.map(l => changes(l) ? { ...l, ...props } : l): a new object for a
\* layer an update names, the same object for every other layer.
mappedObjects(refs, ls, updates, fresh) ==
    [i \in 1..Len(ls) |->
        IF \E u \in 1..Len(updates) : updates[u].id = ls[i].id
        THEN fresh + i - 1 ELSE refs[i]]

RECURSIVE filteredObjects(_, _, _, _)
\* layers.filter(l => !selectedLayerIds.includes(l.id)): the objects that stay
filteredObjects(refs, ls, ids, i) ==
    IF i > Len(ls) THEN <<>>
    ELSE (IF Includes(ids, ls[i].id) THEN <<>> ELSE <<refs[i]>>)
         \o filteredObjects(refs, ls, ids, i + 1)

\* history.slice(0, historyIndex + 1) with newLayers pushed: the array pushed is
\* the array given to setLayers.
pushedObjects(entries, refs) == Append(SubSeq(entries, 1, historyIndex + 1), refs)

Heap(op, live, entries, scratch, fresh) ==
    [op |-> op, live |-> live, entries |-> entries, scratch |-> scratch, fresh |-> fresh]

InitHeap ==
    /\ layers \in SceneInputs
    /\ history = <<layers>>
    /\ historyIndex = 0
    /\ interactionStartHistoryState = NullRef
    /\ selectedLayerIds = <<>>
    /\ canvasSettings = defaultCanvasSettings
    /\ isInfiniteCanvas = FALSE
    /\ canvasInitialized = TRUE
    /\ isLoading = FALSE
    /\ error = NoError
    /\ nextId = 1
    /\ tasks = {}
    /\ generationController = 0
    /\ aborted = {}
    /\ nextGen = 1
    /\ cancelRequested = {}
    \* setLayers(loadedLayers); setHistory([loadedLayers])
    /\ lastEvent = Heap("init", <<1, 2, 3>>, << <<1, 2, 3>> >>, <<>>, 4)

\* A gesture on the selected layers, delete, undo and redo, with the objects
\* each of them keeps and makes.
NextHeap ==
    \/ \E ids \in SelectionInputs :
          /\ setSelectedLayerIds(ids)
          /\ lastEvent' = [lastEvent EXCEPT !.op = "setSelectedLayerIds"]
    \/ /\ beginInteraction
       \* interactionStartHistoryState.current = layers
       /\ lastEvent' = [lastEvent EXCEPT !.op = "beginInteraction",
                                         !.scratch = <<lastEvent.live>>]
    \/ \E u \in UpdatesInputs, f \in BOOLEAN :
          /\ interactionStartHistoryState # NullRef
          /\ lastEvent.fresh + Len(layers) - 1 <= MaxObjects
          /\ updateMultipleLayers(u, f)
          /\ \E refs \in {mappedObjects(lastEvent.live, layers, u, lastEvent.fresh)} :
                lastEvent' =
                   Heap("updateMultipleLayers", refs,
                        IF f /\ JSONstringify(interactionStartHistoryState[1])
                                   # JSONstringify(layers')
                        THEN pushedObjects(lastEvent.entries, refs)
                        ELSE lastEvent.entries,
                        IF f THEN <<>> ELSE lastEvent.scratch,
                        lastEvent.fresh + Len(layers))
    \/ /\ Len(selectedLayerIds) > 0
       /\ deleteSelectedLayers
       /\ \E refs \in {filteredObjects(lastEvent.live, layers, selectedLayerIds, 1)} :
             lastEvent' = Heap("deleteSelectedLayers", refs,
                               pushedObjects(lastEvent.entries, refs), <<>>,
                               lastEvent.fresh)
    \/ /\ historyIndex > 0
       /\ handleUndo
       \* setLayers(history[newIndex])
       /\ lastEvent' = [lastEvent EXCEPT !.op = "handleUndo",
                                         !.live = lastEvent.entries[historyIndex]]
    \/ /\ historyIndex < Len(history) - 1
       /\ handleRedo
       /\ lastEvent' = [lastEvent EXCEPT !.op = "handleRedo",
                                         !.live = lastEvent.entries[historyIndex + 2]]

SpecHeap == InitHeap /\ [][NextHeap]_allVars

\* ------------------------------------------------------------ properties
UpdateOps == {"updateLayerProperties", "updateMultipleLayers"}
CommitOps == {"handleAddTextLayer", "deleteSelectedLayers", "duplicateSelectedLayers",
              "handleMoveLayers"}

IsFinalUpdate(e) == e.op \in UpdateOps /\ e.isFinalChange
IsPreview(e) == e.op \in UpdateOps /\ ~e.isFinalChange

\* The operations that are complete when their handler returns.
IsCompleted(e) ==
    \/ IsFinalUpdate(e)
    \/ e.op \in CommitOps
    \/ e.op \in {"handleUndo", "handleRedo", "handleCloseAndReset"}
    \/ e.op = "handleJsonFile" /\ e.loaded

\* C1: after every completed operation (a final update, add text, delete,
\* duplicate, reorder, undo, redo, document load, reset) the history entry under
\* the cursor is the layer array on display.
C1_CursorEntryIsDisplayed ==
    [][IsCompleted(lastEvent') => history'[historyIndex' + 1] = layers']_allVars

\* C2: the history is never empty and the cursor is always an index of it.
C2_CursorInRange ==
    /\ Len(history) >= 1
    /\ historyIndex >= 0
    /\ historyIndex < Len(history)

\* An undo has left a redo tail behind the cursor.
C2_Witness ==
    /\ lastEvent.op = "handleUndo"
    /\ historyIndex = 0
    /\ Len(history) = 2

\* C3: after an operation that pushed a history entry, an immediate undo shows
\* the array that was on display before the operation, and a redo right after
\* that undo shows the array the operation left; an undo at index 0 and a redo
\* at the last index change nothing.
C3_UndoRedoRoundTrip ==
    [][/\ ("pushed" \in DOMAIN lastEvent /\ lastEvent.pushed /\ lastEvent'.op = "handleUndo")
          => layers' = lastEvent.before
       /\ (lastEvent.op = "handleUndo" /\ lastEvent.redoes # <<>>
           /\ lastEvent'.op = "handleRedo")
          => layers' = lastEvent.redoes[1]
       /\ lastEvent'.op = "handleUndo" => historyIndex > 0
       /\ lastEvent'.op = "handleRedo" => historyIndex < Len(history) - 1]_allVars

\* C5: beginInteraction keeps the array on display; an update that is not final
\* replaces the layers and leaves the history, the cursor and the kept array
\* alone; the final update of a gesture, when its result differs from the kept
\* array, appends exactly one entry behind the cursor and moves the cursor to it.
C5_GestureAddsOneEntry ==
    [][/\ lastEvent'.op = "beginInteraction"
          => /\ interactionStartHistoryState' = <<layers>>
             /\ UNCHANGED <<layers, history, historyIndex>>
       /\ IsPreview(lastEvent')
          => UNCHANGED <<history, historyIndex, interactionStartHistoryState>>
       /\ (/\ IsFinalUpdate(lastEvent')
           /\ interactionStartHistoryState # NullRef
           /\ interactionStartHistoryState[1] # layers')
          => /\ history' = Append(SubSeq(history, 1, historyIndex + 1), layers')
             /\ historyIndex' = historyIndex + 1
             /\ interactionStartHistoryState' = NullRef]_allVars

\* A gesture has just ended with one new entry, which the cursor is on.
C5_Witness ==
    /\ IsFinalUpdate(lastEvent)
    /\ lastEvent.pushed
    /\ lastEvent.before # layers
    /\ historyIndex = 1
    /\ Len(history) = 2
    /\ history[2] = layers

\* C6: the final update of a gesture whose result is deep-equal to the array
\* kept at beginInteraction leaves the history and the cursor (and so the redo
\* tail) unchanged and clears the kept array.
C6_UnchangedGestureAddsNothing ==
    [][(/\ IsFinalUpdate(lastEvent')
        /\ interactionStartHistoryState # NullRef
        /\ interactionStartHistoryState[1] = layers')
       => /\ UNCHANGED <<history, historyIndex>>
          /\ interactionStartHistoryState' = NullRef]_allVars

\* A gesture has just ended where it began, with a redo tail still in place.
C6_Witness ==
    /\ IsFinalUpdate(lastEvent)
    /\ ~lastEvent.pushed
    /\ lastEvent.before = layers
    /\ interactionStartHistoryState = NullRef
    /\ historyIndex = 0
    /\ Len(history) = 2

\* The handlers and continuations that write a snapshot into the history.
SnapshotOps ==
    UpdateOps \cup CommitOps \cup
    {"addImageLoaded", "handleMergeLayers", "mergeCaptured",
     "handleBakeSelectedLayer", "bakeCaptured"}

\* C4: an operation that commits a snapshot while the cursor is at index i keeps
\* the entries 0..i, drops every entry behind i, appends the new layer array as
\* entry i+1 and puts the cursor on it, so that no redo is left.
C4_CommitTruncatesAndAppends ==
    [][(/\ lastEvent'.op \in SnapshotOps
        /\ (history' # history \/ historyIndex' # historyIndex))
       => /\ history' = Append(SubSeq(history, 1, historyIndex + 1), layers')
          /\ historyIndex' = historyIndex + 1
          /\ historyIndex' = Len(history') - 1]_allVars

\* The multi-layer operations that finish inside handleMultiLayerAction.
ImmediateActions == {"delete", "duplicate"} \cup GeometryActions

C8_CancelledGenerationAddsNothing ==
    [][(/\ lastEvent'.op = "generateResumed"
        /\ lastEvent'.task.gid \in cancelRequested)
       => UNCHANGED <<layers, history, historyIndex>>]_allVars

\* C9: a preset generation that was in flight when handleCancelGeneration ran
\* adds no layers: its results are discarded.
C9_CancelledPresetAddsNothing ==
    [][(/\ lastEvent'.op = "presetResumed"
        /\ lastEvent'.task.gid \in cancelRequested)
       => UNCHANGED <<layers, history, historyIndex>>]_allVars

ResumedOps == {"generateResumed", "presetResumed"}

\* Several requests of one generation were awaited together and one failed.
BatchFailed(e) ==
    /\ e.op \in ResumedOps
    /\ e.task.stage = "requests"
    /\ e.task.n >= 2
    /\ \E i \in DOMAIN e.outcomes : ~e.outcomes[i]

\* A generation of several requests has added its results.
BatchAdded(e) ==
    /\ e.op \in ResumedOps
    /\ e.task.n >= 2
    /\ layers' # layers

\* A batch adds nothing unless every request succeeded, and then every result
\* in one commit behind the cursor the generation captured.
BatchAllOrNothing ==
    /\ BatchFailed(lastEvent')
       => /\ UNCHANGED <<layers, history, historyIndex>>
          /\ \A t \in tasks' : t.gid # lastEvent'.task.gid
    /\ BatchAdded(lastEvent')
       => /\ lastEvent'.task.stage = "images"
          /\ \A i \in DOMAIN lastEvent'.outcomes : lastEvent'.outcomes[i]
          /\ Len(layers') = Len(lastEvent'.task.c.layers) + lastEvent'.task.n
          /\ history' = Append(SubSeq(lastEvent'.task.c.history, 1,
                                      lastEvent'.task.c.historyIndex + 1), layers')
          /\ historyIndex' = lastEvent'.task.c.historyIndex + 1

\* C10, as stated: when one of several concurrent requests fails, nothing is
\* added and an error is set; results are added only when every request
\* succeeded, all in one commit.
C10_FailedBatchSetsError ==
    [][/\ BatchAllOrNothing
       /\ BatchFailed(lastEvent') => error' # NoError]_allVars

\* C10, amended: when one of several concurrent requests fails, nothing is added,
\* and an error is set unless the generation is one of handleGenerateAILayer
\* whose controller was aborted; results are added only when every request
\* succeeded, all in one commit.
C10_FailedBatchAddsNothing ==
    [][/\ BatchAllOrNothing
       /\ (/\ BatchFailed(lastEvent')
           /\ ~(lastEvent'.op = "generateResumed" /\ lastEvent'.task.gid \in aborted))
          => error' # NoError]_allVars

\* One of the two requests of a batch has just failed: the error is shown and the
\* generation is gone.
C10_Witness ==
    /\ BatchFailed(lastEvent)
    /\ lastEvent.outcomes = <<TRUE, FALSE>>
    /\ error # NoError
    /\ \A t \in tasks : t.gid # lastEvent.task.gid
    /\ history[historyIndex + 1] = layers

\* C11: when the rasterization of a merge or of a bake fails, the operation sets
\* an error, leaves the layers, the history, the cursor and the selection
\* unchanged, and the array kept by beginInteraction is discarded.
C11_FailedRasterRollsBack ==
    [][lastEvent'.op \in {"mergeCaptureFailed", "bakeCaptureFailed"}
       => /\ error' # NoError
          /\ UNCHANGED <<layers, history, historyIndex, selectedLayerIds>>
          /\ interactionStartHistoryState' = NullRef]_allVars

\* C12: loading a document that is not valid (malformed JSON, canvasSettings
\* that is no object, layers that are no array, a required field missing)
\* reports an error and leaves the layers, the history, the cursor, the canvas
\* settings and the infinite-canvas flag unchanged.
C12_InvalidDocumentIsRejected ==
    [][(lastEvent'.op = "handleJsonFile" /\ ~lastEvent'.valid)
       => /\ error' = InvalidJsonError
          /\ UNCHANGED <<layers, history, historyIndex, canvasSettings,
                         isInfiniteCanvas>>]_allVars

\* The commands that need a selection of a given size and were given less.
IgnoredCommand(e, sel) ==
    \/ /\ e.op = "handleMultiLayerAction"
       /\ e.action \in GeometryActions \cup {"merge"}
       /\ Len(sel) < 2
    \/ e.op = "handleMergeLayers" /\ Len(sel) < 2
    \/ e.op = "handleBakeSelectedLayer" /\ Len(sel) # 1

\* C13: align, distribute, distribute-and-scale and merge with fewer than two
\* layers selected, and bake with a selection that is not exactly one layer,
\* leave layers, history, historyIndex, the selection, the interaction-start
\* ref and the error unchanged.
C13_InsufficientSelectionIsIgnored ==
    [][(lastEvent' # lastEvent /\ IgnoredCommand(lastEvent', selectedLayers))
       => UNCHANGED <<layers, history, historyIndex, selectedLayerIds,
                      interactionStartHistoryState, error>>]_allVars

\* Bake was asked for with two layers selected, and distribute with one.
C13_Witness ==
    \/ lastEvent.op = "handleBakeSelectedLayer" /\ Len(selectedLayers) = 2
    \/ /\ lastEvent.op = "handleMultiLayerAction"
       /\ lastEvent.action = "distribute-horizontal"
       /\ Len(selectedLayers) = 1

Right(l) == QAdd(l.x, l.width)
Bottom(l) == QAdd(l.y, l.height)

\* r is the smallest upright rectangle that holds every (unrotated) layer of sel.
IsBoundingBoxOf(r, sel) ==
    /\ \A i \in 1..Len(sel) :
          /\ QLe(r.x, sel[i].x) /\ QLe(Right(sel[i]), Right(r))
          /\ QLe(r.y, sel[i].y) /\ QLe(Bottom(sel[i]), Bottom(r))
    /\ \E i \in 1..Len(sel) : r.x = sel[i].x
    /\ \E i \in 1..Len(sel) : r.y = sel[i].y
    /\ \E i \in 1..Len(sel) : Right(r) = Right(sel[i])
    /\ \E i \in 1..Len(sel) : Bottom(r) = Bottom(sel[i])

IdsOf(ls) == {ls[i].id : i \in 1..Len(ls)}

\* The layers of ls whose id is not in ids, in stack order.
Others(ls, ids) == SelectSeq(ls, LAMBDA l : l.id \notin ids)

\* C14: a merge of k >= 2 selected layers that completes with nothing else in
\* between leaves exactly one new image layer and none of the k originals, so
\* n - k + 1 layers; the unselected layers are unchanged; the new layer has the
\* bounding box of the originals as x, y, width and height and rotation 0; and
\* the selection is the new layer alone.
C14_MergeReplacesSelection ==
    [][lastEvent'.op = "mergeCaptured"
       => LET sel == selectedLayers
              k == Len(sel)
              fresh == IdsOf(layers') \ IdsOf(layers)
          IN  /\ k >= 2
              /\ Len(layers') = Len(layers) - k + 1
              /\ Cardinality(fresh) = 1
              /\ IdsOf(layers') \cap IdsOf(sel) = {}
              /\ Others(layers', fresh) = Others(layers, IdsOf(sel))
              /\ \A i \in 1..Len(layers') :
                    layers'[i].id \in fresh
                    => /\ layers'[i].type = "image"
                       /\ IsBoundingBoxOf(layers'[i], sel)
                       /\ layers'[i].rotation = 0
                       /\ selectedLayerIds' = <<layers'[i].id>>]_allVars

\* A merge of two of three layers has completed.
C14_Witness ==
    /\ lastEvent.op = "mergeCaptured"
    /\ Len(lastEvent.task.c.selectedLayerIds) = 2
    /\ Len(layers) = 2

\* The layer of ls that has the id of l.
LayerOf(ls, l) == ls[findIndex(ls, l.id)]

\* A geometry command was given on two or more selected layers.
Arranged(e, actions) ==
    /\ e.op = "handleMultiLayerAction"
    /\ e.action \in actions
    /\ Len(selectedLayers) >= 2

\* The distance from the far edge of sorted[i] to the near edge of sorted[i + 1]
\* in the layers ls, along the axis pos with the extent size.
GapAfter(ls, sorted, i, pos, size) ==
    QSub(LayerOf(ls, sorted[i + 1])[pos],
         QAdd(LayerOf(ls, sorted[i])[pos], LayerOf(ls, sorted[i])[size]))

RECURSIVE SumOfGaps(_, _, _, _, _)
SumOfGaps(ls, sorted, i, pos, size) ==
    IF i >= Len(sorted) THEN Num(0)
    ELSE QAdd(GapAfter(ls, sorted, i, pos, size), SumOfGaps(ls, sorted, i + 1, pos, size))

\* What distributing along pos leaves alone on every layer.
OffAxisKept(before, after, pos) ==
    /\ Len(after) = Len(before)
    /\ \A i \in 1..Len(before) :
          /\ after[i].id = before[i].id
          /\ after[i].width = before[i].width
          /\ after[i].height = before[i].height
          /\ (pos = "x" => after[i].y = before[i].y)
          /\ (pos = "y" => after[i].x = before[i].x)

EndsKept(before, after, sorted, pos) ==
    /\ LayerOf(after, sorted[1])[pos] = sorted[1][pos]
    /\ LayerOf(after, sorted[Len(sorted)])[pos] = sorted[Len(sorted)][pos]

GapsEqual(after, sorted, pos, size) ==
    \A i, j \in 1..(Len(sorted) - 1) :
        GapAfter(after, sorted, i, pos, size) = GapAfter(after, sorted, j, pos, size)

GapsSpan(after, sorted, extent, pos, size) ==
    SumOfGaps(after, sorted, 1, pos, size) = QSub(extent, SumOf(sorted, 1, size))

Distributed(before, after, sel, pos, size) ==
    LET sorted == sortedBy(sel, pos)
        bbox == getBoundingBoxForLayers(sel)[1]
    IN  /\ EndsKept(before, after, sorted, pos)
        /\ GapsEqual(after, sorted, pos, size)
        /\ GapsSpan(after, sorted, bbox[size], pos, size)
        /\ OffAxisKept(before, after, pos)

\* C15: distribute-horizontal on two or more unrotated layers of positive size,
\* wherever they are: the first and the last layer in x order keep their
\* positions, the gaps between consecutive layers in that order are equal and
\* sum to the width of the bounding box less the widths of the layers, and y,
\* width and height of every layer are unchanged; distribute-vertical likewise
\* along y.
C15_DistributeKeepsEnds ==
    [][/\ Arranged(lastEvent', {"distribute-horizontal"})
          => Distributed(layers, layers', selectedLayers, "x", "width")
       /\ Arranged(lastEvent', {"distribute-vertical"})
          => Distributed(layers, layers', selectedLayers, "y", "height")]_allVars

\* The layers of sel as they are in ls, in the order of sel.
NowOf(ls, sel) == [i \in 1..Len(sel) |-> LayerOf(ls, sel[i])]

\* Scaled to one extent along `across` and stacked along `along` from the
\* corner of bbox: sorted holds the layers before and now the same layers after.
ScaledAndStacked(sorted, now, bbox, along, across, extentAlong, extentAcross) ==
    LET n == Len(sorted)
        average == QDiv(SumOf(sorted, 1, extentAcross), Num(n))
    IN  /\ \A i \in 1..n :
              /\ now[i][extentAcross] = average
              /\ QMul(now[i][extentAlong], sorted[i][extentAcross])
                    = QMul(sorted[i][extentAlong], now[i][extentAcross])
              /\ now[i][across] = bbox[across]
        /\ now[1][along] = bbox[along]
        /\ \A i \in 1..(n - 1) :
              now[i + 1][along]
                 = QAdd(QAdd(now[i][along], now[i][extentAlong]), Num(GAP))
        /\ \A i \in 1..(n - 1) : QLe(sorted[i][along], sorted[i + 1][along])

OnlyMoved(before, after, sel, pos) ==
    /\ Len(after) = Len(before)
    /\ \A i \in 1..Len(before) :
          /\ DOMAIN after[i] = DOMAIN before[i]
          /\ \A k \in DOMAIN before[i] \ {pos} : after[i][k] = before[i][k]
          /\ before[i].id \notin IdsOf(sel) => after[i] = before[i]

\* The point of the extent [at, at + size] that an alignment brings together:
\* the near edge, the centre or the far edge.
Anchor(at, size, action) ==
    CASE action \in {"align-left", "align-top"} -> at
      [] action \in {"align-center", "align-middle"} -> QAdd(at, Half(size))
      [] action \in {"align-right", "align-bottom"} -> QAdd(at, size)

Aligned(before, after, sel, action, pos, size) ==
    LET bbox == getBoundingBoxForLayers(sel)[1]
    IN  /\ IsBoundingBoxOf(bbox, sel)
        /\ OnlyMoved(before, after, sel, pos)
        /\ \A i \in 1..Len(sel) :
              Anchor(LayerOf(after, sel[i])[pos], sel[i][size], action)
                 = Anchor(bbox[pos], bbox[size], action)

\* C17: an alignment of two or more unrotated selected layers changes x only
\* (left, center, right) or y only (top, middle, bottom): width, height,
\* rotation, stack order and the other coordinate of every layer are unchanged
\* and unselected layers are untouched; afterwards the aligned edge or centre of
\* every selected layer lies on that edge or centre of the bounding box the
\* selection had before.
C17_AlignIsSingleAxis ==
    [][/\ Arranged(lastEvent', {"align-left", "align-center", "align-right"})
          => Aligned(layers, layers', selectedLayers, lastEvent'.action, "x", "width")
       /\ Arranged(lastEvent', {"align-top", "align-middle", "align-bottom"})
          => Aligned(layers, layers', selectedLayers, lastEvent'.action, "y", "height")]_allVars

\* align-middle on the layers of heights 100 and 50 with y = 0 and y = 20 has
\* moved the second one to y = 25 and left the third layer alone.
C17_Witness ==
    /\ lastEvent.op = "handleMultiLayerAction"
    /\ lastEvent.action = "align-middle"
    /\ selectedLayerIds = <<101, 102>>
    /\ layers[1].height = Num(100)
    /\ layers[2].y = Num(25)
    /\ layers[2].x = Num(10)
    /\ layers[3].y = Num(60)

\* c is l with a new id, moved by 20 along x and y.
IsCloneOf(c, l) ==
    /\ DOMAIN c = DOMAIN l
    /\ \A k \in DOMAIN l \ {"id", "x", "y"} : c[k] = l[k]
    /\ c.id # l.id
    /\ c.x = QAdd(l.x, Num(20))
    /\ c.y = QAdd(l.y, Num(20))

\* The smallest stack index (1-based) a layer of sel has in ls.
TopIndex(ls, sel) ==
    CHOOSE m \in 1..Len(ls) :
        /\ ls[m].id \in IdsOf(sel)
        /\ \A j \in 1..(m - 1) : ls[j].id \notin IdsOf(sel)

ClonesOf(after, fresh) == SelectSeq(after, LAMBDA l : l.id \in fresh)

EveryLayerCloned(after, sel, fresh) ==
    /\ Cardinality(fresh) = Len(sel)
    /\ \A i \in 1..Len(sel) :
          Cardinality({j \in 1..Len(after) :
                          after[j].id \in fresh /\ IsCloneOf(after[j], sel[i])}) = 1

ClonesAboveTopmost(before, after, sel, fresh) ==
    \A j \in 1..Len(after) :
        after[j].id \in fresh
        <=> j \in TopIndex(before, sel)..(TopIndex(before, sel) + Len(sel) - 1)

Duplicated(before, after, sel, selection) ==
    LET fresh == IdsOf(after) \ IdsOf(before)
    IN  /\ EveryLayerCloned(after, sel, fresh)
        /\ ClonesAboveTopmost(before, after, sel, fresh)
        /\ Others(after, fresh) = before
        /\ Len(selection) = Len(sel)
        /\ {selection[i] : i \in 1..Len(selection)} = fresh

\* C18: duplicate, for every non-empty selection in every order of selecting:
\* each selected layer gets one clone with a fresh id, equal to it but for x + 20
\* and y + 20; the clones are all put in the stack at the smallest index a
\* selected layer holds; the originals and the other layers keep their
\* properties and their order; the selection becomes the ids of the clones.
C18_DuplicateAboveTopmost ==
    [][(/\ lastEvent'.op = "handleMultiLayerAction"
        /\ lastEvent'.action = "duplicate"
        /\ Len(selectedLayers) >= 1)
       => Duplicated(layers, layers', selectedLayers, selectedLayerIds')]_allVars

\* The value of the field k of the object l: undefined when l has no such key.
Field(l, k) == IF k \in DOMAIN l THEN l[k] ELSE Undefined

\* The two layer arrays are equal field by field.
SameLayers(a, b) ==
    /\ Len(a) = Len(b)
    /\ \A i \in 1..Len(a) :
          \A k \in DOMAIN a[i] \cup DOMAIN b[i] : Field(a[i], k) = Field(b[i], k)

C20_EmbedExtractRoundTrip ==
    (lastEvent.op = "extractJsonFromPng" /\ lastEvent.enabled)
    => lastEvent.extracted = <<lastEvent.jsonData>>

Unrotated(ls) == \A i \in 1..Len(ls) : ls[i].rotation = 0

\* C21: getBoundingBoxForLayers returns null for the empty list; for unrotated
\* layers it returns x = the least left edge, y = the least top edge, width =
\* the greatest right edge less x and height = the greatest bottom edge less y.
C21_BoundingBoxIsMinMax ==
    /\ getBoundingBoxForLayers(<<>>) = <<>>
    /\ (Len(selectedLayers) > 0 /\ Unrotated(selectedLayers))
       => /\ Len(getBoundingBoxForLayers(selectedLayers)) = 1
          /\ IsBoundingBoxOf(getBoundingBoxForLayers(selectedLayers)[1], selectedLayers)

\* Three layers apart from one another are selected: the box from (0, 0) to
\* (140, 70) is the rectangle of none of them.
C21_Witness ==
    /\ Len(selectedLayers) = 3
    /\ Unrotated(selectedLayers)
    /\ getBoundingBoxForLayers(selectedLayers)
          = << [x |-> Num(0), y |-> Num(0), width |-> Num(140), height |-> Num(70)] >>

Objects(refs) == {refs[i] : i \in 1..Len(refs)}

EntriesShareNothing(entries) ==
    \A i, j \in 1..Len(entries) : i # j => Objects(entries[i]) \cap Objects(entries[j]) = {}

ScratchSharesNothing(scratch, live) ==
    scratch # <<>> => Objects(scratch[1]) \cap Objects(live) = {}

\* C22: history snapshots are deep, independent copies: in every reachable state
\* no layer object is shared by reference between two history entries, nor
\* between the interaction-start snapshot and the live layers array.
C22_SnapshotsShareNoObject ==
    /\ EntriesShareNothing(lastEvent.entries)
    /\ ScratchSharesNothing(lastEvent.scratch, lastEvent.live)

\* The valid document was loaded by the step that led here.
JustLoaded ==
    /\ lastEvent.op = "handleJsonFile"
    /\ "valid" \in DOMAIN lastEvent
    /\ lastEvent.valid

\* C23: loading a valid document replaces the scene and the history whatever
\* they were: layers is the document's layers, history the single entry of
\* these layers and historyIndex 0, so that neither undo (historyIndex > 0) nor
\* redo (historyIndex < history.length - 1) has an array to go to.
C23_LoadReplacesSceneAndHistory ==
    JustLoaded
    => /\ layers = ValidDocument.layers
       /\ history = <<ValidDocument.layers>>
       /\ historyIndex = 0
       /\ ~(historyIndex > 0)
       /\ ~(historyIndex < Len(history) - 1)

\* The document was loaded over a scene in which a layer had been added and
\* selected, with a gesture under way.
C23_Witness ==
    /\ JustLoaded
    /\ nextId > 1
    /\ selectedLayerIds = <<1>>
    /\ interactionStartHistoryState # NullRef
    /\ interactionStartHistoryState[1] # ValidDocument.layers

RECURSIVE TypesBeforeIEND(_, _)
\* The types of the chunks of a file from the 0-based offset up to IEND.
TypesBeforeIEND(bytes, offset) ==
    IF offset + 8 > Len(bytes) THEN {}
    ELSE LET type == SubSeq(bytes, offset + 5, offset + 8)
         IN  IF type = IEND THEN {}
             ELSE {type} \cup TypesBeforeIEND(bytes, offset + 12 + getUint32(bytes, offset))

\* out is png with one apIX chunk for jsonData put in before the last chunk.
EmbeddedBeforeIEND(png, out, jsonData) ==
    LET n == Len(png)
        data == TextEncode(StringifyObject(jsonData), 1)
        m == Len(data)
    IN  /\ Len(out) = n + 12 + m
        /\ SubSeq(out, 1, n - 12) = SubSeq(png, 1, n - 12)
        /\ SubSeq(out, n - 11, n - 8) = <<0, 0, m \div 256, m % 256>>
        /\ SubSeq(out, n - 7, n - 4) = apIX
        /\ SubSeq(out, n - 3, n - 4 + m) = data
        /\ SubSeq(out, n - 3 + m, n + m) = Uint32Bytes(crc32(apIX \o data))
        /\ SubSeq(out, n + m + 1, n + m + 12) = SubSeq(png, n - 11, n)
        /\ SubSeq(out, n + m + 5, n + m + 8) = IEND

\* C24: embedJsonInPng puts exactly one apIX chunk (length, type, the JSON data,
\* the CRC-32 of type and data) after the image chunks and right before the
\* IEND chunk and leaves every other byte as it was and where it was in order;
\* extractJsonFromPng scans the chunks from the end of the 8-byte signature up
\* to IEND and returns null for a file that does not begin with the PNG
\* signature or that has no apIX chunk before IEND.
C24_ChunkBeforeIEND ==
    /\ (lastEvent.op \in {"embedJsonInPng", "extractJsonFromPng"} /\ lastEvent.enabled)
       => EmbeddedBeforeIEND(lastEvent.png, lastEvent.embedded.bytes, lastEvent.jsonData)
    /\ lastEvent.op = "extractJsonFromPng"
       => /\ SubSeq(lastEvent.embedded.bytes, 1, 8) # Signature
             => lastEvent.extracted = <<>>
          /\ apIX \notin TypesBeforeIEND(lastEvent.embedded.bytes, 8)
             => lastEvent.extracted = <<>>

\* {} was embedded into the PNG of IHDR, IDAT and IEND: the chunk 00 00 00 02
\* "apIX" "{}" ED 74 58 90 stands before IEND, and the object was read back.
C24_Witness ==
    /\ lastEvent.op = "extractJsonFromPng"
    /\ lastEvent.enabled
    /\ lastEvent.jsonData = <<>>
    /\ Len(lastEvent.png) = 59
    /\ SubSeq(lastEvent.embedded.bytes, 48, 73)
          = << 0, 0, 0, 2, 97, 112, 73, 88, 123, 125, 237, 116, 88, 144,
               0, 0, 0, 0, 73, 69, 78, 68, 174, 66, 96, 130 >>
    /\ lastEvent.extracted = << <<>> >>


\* The 1-based position of the layer with the id in a stack (index 1 is the top).
PositionOf(ls, id) == CHOOSE i \in 1..Len(ls) : ls[i].id = id

\* The selected layers of `before` that form a contiguous run at the end the
\* move goes to: every position from that end up to p holds a selected layer.
RunAtEnd(before, sel, p, direction) ==
    IF direction = "up"
    THEN \A k \in 1..p : before[k].id \in sel
    ELSE \A k \in p..Len(before) : before[k].id \in sel

\* `after` is `before` with every layer of sel moved one position in the
\* direction, except the run of selected layers at that end of the stack.
MovedOneStep(before, after, sel, direction) ==
    LET ids == {before[i].id : i \in 1..Len(before)}
        step == IF direction = "up" THEN 0 - 1 ELSE 1
    IN  /\ Len(after) = Len(before)
        /\ \A i \in 1..Len(before) : \E j \in 1..Len(after) : after[j] = before[i]
        /\ \A id \in ids \cap sel :
              PositionOf(after, id)
                 = IF RunAtEnd(before, sel, PositionOf(before, id), direction)
                   THEN PositionOf(before, id)
                   ELSE PositionOf(before, id) + step
        /\ \A a, b \in ids :
              ((a \in sel) = (b \in sel)
               /\ PositionOf(before, a) < PositionOf(before, b))
              => PositionOf(after, a) < PositionOf(after, b)

\* C25: handleMoveLayers('up') leaves a permutation of the stack in which every
\* selected layer is one position nearer the top, except the selected layers
\* that form a contiguous run at the top, which stay; the selected layers keep
\* their order among themselves and so do the unselected ones; 'down' is the
\* same toward the bottom. This holds for every stack and every selection.
C25_MoveSelectionOneStep ==
    (lastEvent.op = "handleMoveLayers" /\ Len(selectedLayerIds) > 0)
    => MovedOneStep(lastEvent.before, layers,
                    {selectedLayerIds[i] : i \in 1..Len(selectedLayerIds)},
                    lastEvent.direction)


\* The generations of handleGenerateAILayer that have not returned yet.
GeneratingIds == {t.gid : t \in {u \in tasks : u.kind = "generate"}}

\* C26: handleGenerateAILayer called while an earlier generation is in flight
\* aborts the earlier one, and a generation that is not the one started last
\* never adds its results: it leaves the layers and the history as they are.
C26_NewGenerationAbortsEarlier ==
    [][/\ lastEvent'.op = "handleGenerateAILayer"
          => GeneratingIds \subseteq aborted'
       /\ (/\ lastEvent'.op = "generateResumed"
           /\ lastEvent'.task.gid < nextGen - 1)
          => UNCHANGED <<layers, history, historyIndex>>]_allVars


\* The layers an asynchronous operation replaces: the ones that were selected
\* when it started.
ReplacedBy(task) == {task.c.selectedLayerIds[i] : i \in 1..Len(task.c.selectedLayerIds)}

\* C27: when merge or bake applies its result after its rasterization, every
\* layer change committed while it was suspended is still there: each layer of
\* the current array that the operation does not replace is in the new array,
\* no layer that was removed meanwhile comes back, and the history entries up
\* to the current cursor, the ones committed meanwhile among them, are kept and
\* the result is appended behind them.
C27_NoLostUpdate ==
    [][lastEvent'.op \in {"mergeCaptured", "bakeCaptured"}
       => \A task \in tasks :
             /\ \A i \in 1..Len(layers) :
                   layers[i].id \notin ReplacedBy(task)
                   => \E j \in 1..Len(layers') : layers'[j] = layers[i]
             /\ \A j \in 1..Len(layers') :
                   \/ \E i \in 1..Len(layers) : layers[i] = layers'[j]
                   \/ \A i \in 1..Len(task.c.layers) : task.c.layers[i].id # layers'[j].id
             /\ history' = Append(SubSeq(history, 1, historyIndex + 1), layers')]_allVars


\* C28: no two adjacent history entries are equal, in every state the composer
\* operations reach: an operation that leaves the layer array as it was adds no
\* entry (and so drops no entry behind the cursor).
C28_NoEqualNeighbours ==
    \A i \in 1..(Len(history) - 1) : history[i] # history[i + 1]


\* An id is selected and no selected id names a layer of the scene.
SelectionAbsent ==
    /\ Len(selectedLayerIds) > 0
    /\ \A i \in 1..Len(selectedLayerIds) : \A j \in 1..Len(layers) :
          layers[j].id # selectedLayerIds[i]

\* C29: a selection command (delete, duplicate, raise, lower) given while every
\* selected id is absent from the scene changes neither the layers nor the
\* history nor the cursor.
C29_AbsentSelectionIsIgnored ==
    [][(/\ lastEvent'.op \in {"deleteSelectedLayers", "duplicateSelectedLayers",
                              "handleMoveLayers"}
        /\ SelectionAbsent)
       => UNCHANGED <<layers, history, historyIndex>>]_allVars


\* C30: while a generation of handleGenerateAILayer is in flight and was not
\* cancelled, isLoading is true; so the return of an earlier, cancelled
\* generation clears neither the loading flag nor the controller of a later
\* generation that is still running.
C30_LoadingWhileGenerating ==
    \A task \in tasks :
        (task.kind = "generate" /\ task.gid \notin cancelRequested)
        => isLoading

====
